---- MODULE Spec2Model ----
(***************************************************************************)
(* State-machine model of hikcamera.HikCamera: the module-level SDK        *)
(* initialisation guard (_SDK_INITIALIZED/_SDK_INIT_COUNT), the session    *)
(* lifecycle (__init__/_auto_connect, start, stop, close, __exit__,        *)
(* __del__), frame acquisition (get_image, trigger_and_get_image) and the  *)
(* parameter setters behind set_params.                                    *)
(*                                                                         *)
(* Spec drives one session through every operation; SpecGuard drives       *)
(* several sessions through construction and teardown only, to exercise    *)
(* the shared guard; SpecThreads runs the guard sections of __init__ and    *)
(* close() step by step in several threads; SpecParams and SpecSnapshot    *)
(* follow the parameter writes and reads of one session against the        *)
(* values the camera holds; SpecConvert applies the frame converter to     *)
(* every frame a camera may deliver.                                       *)
(*                                                                         *)
(* The vendor SDK is an external collaborator: every native call returns   *)
(* a status, 0 for success and non-zero for failure, chosen here           *)
(* nondeterministically (1 stands for any non-zero status).                *)
(***************************************************************************)
EXTENDS Integers, Sequences, FiniteSets, TLC

\* ---- bounds ----
NumSessions == 2       \* session objects that may be constructed
MaxCloseCalls == 2     \* explicit close()/__exit__ calls allowed per session
MaxDevices == 1        \* MV_CC_EnumDevices reports 0..MaxDevices devices
MaxIndex == 1          \* camera_index ranges over 0..MaxIndex
MaxDim == 2            \* frame width and height range over 1..MaxDim
MaxParam == 2          \* camera parameter values range over 1..MaxParam

Sessions == 1..NumSessions
Status == {0, 1}

\* trigger_mode arguments a caller may pass; the last one is not a legal mode
TriggerModes == {"continuous", "trigger"}
TriggerArgs == TriggerModes \cup {"hardware"}

VARIABLES
    _SDK_INITIALIZED,   \* module global, hikcamera.py:54
    _SDK_INIT_COUNT,    \* module global, hikcamera.py:55
    sdkLive,            \* native SDK: initialised and not yet finalised
    nInitialize,        \* number of MV_CC_Initialize calls so far
    nFinalize,          \* number of MV_CC_Finalize calls so far
    obj,                \* per session: how far the object's life has got
    _cam,               \* per session: self._cam ("unset", "MvCamera", "None")
    dev,                \* per session: native handle ("none", "handle", "open")
    _is_running,        \* per session: self._is_running
    was_started,        \* per session: start() has succeeded at least once
    _config,            \* per session: self._config
    ctor_mode,          \* per session: the trigger mode the session was constructed with
    _pixel_type,        \* per session: self._pixel_type
    closeCalls,         \* per session: number of close() invocations
    op,                 \* the operation performed last: [name, sess] (and args of set_params)
    calls,              \* the native calls it issued, in order: <<name, status>>,
                        \* with a third component where the call hands back a value
    result,             \* its outcome: "ok" or the kind of the error raised
    allOk,              \* so far no native call failed and no operation raised
    createdAfterClose,  \* some session was constructed after a close() call
    device,             \* the parameter values the camera itself holds
    snapshot,           \* the CameraParams the last operation returned: <<params>> after
                        \* a get_params() that returned, <<>> otherwise
    pc,                 \* per thread: its position inside __init__ or close()
    tmp,                \* per thread: the value of _SDK_INIT_COUNT it has loaded
    raw,                \* the frame handed to the converter: <<>> or <<frame>>
    converted           \* what the converter made of it: <<>> or <<outcome>>

vars == <<_SDK_INITIALIZED, _SDK_INIT_COUNT, sdkLive, nInitialize, nFinalize,
          obj, _cam, dev, _is_running, was_started, _config, ctor_mode, _pixel_type,
          closeCalls, op, calls, result, allOk, createdAfterClose,
          device, snapshot, pc, tmp, raw, converted>>

guardVars == <<_SDK_INITIALIZED, _SDK_INIT_COUNT, sdkLive, nInitialize, nFinalize>>

threadVars == <<pc, tmp>>

converterVars == <<raw, converted>>

\* what the lifecycle operations leave alone
otherVars == <<device, threadVars, converterVars>>

\* config.HikCameraConfig: the field defaults
DefaultConfig ==
    [camera_index |-> 0, trigger_mode |-> "continuous", width |-> 1280, height |-> 720,
     exposure |-> 10000, gain |-> 0, fps |-> 30, timeout |-> 1000]

Call(name, status) == <<name, status>>

\* names of the native calls in a call sequence
Names(cs) == {cs[i][1] : i \in 1..Len(cs)}

\* number of calls of the given name in a call sequence
Count(cs, name) == Cardinality({i \in 1..Len(cs) : cs[i][1] = name})

\* every call in the sequence returned 0
AllZero(cs) == \A i \in 1..Len(cs) : cs[i][2] = 0

\* parameter values a camera holds when the program starts: they are the
\* camera's own, whatever the session's configuration says
FactoryDevice ==
    [width |-> 1, height |-> 1, exposure |-> 1, gain |-> 0, fps |-> 2,
     offset_x |-> 0, offset_y |-> 0]

\* the same with any width
DeviceStates == {[FactoryDevice EXCEPT !.width = w] : w \in 1..MaxParam}

\* the state before any session exists, the camera in one of the states
\* `devices` and the converter holding one of `frames`
InitWith(devices, frames) ==
    /\ _SDK_INITIALIZED = FALSE
    /\ _SDK_INIT_COUNT = 0
    /\ sdkLive = FALSE
    /\ nInitialize = 0
    /\ nFinalize = 0
    /\ obj = [s \in Sessions |-> "none"]
    /\ _cam = [s \in Sessions |-> "unset"]
    /\ dev = [s \in Sessions |-> "none"]
    /\ _is_running = [s \in Sessions |-> FALSE]
    /\ was_started = [s \in Sessions |-> FALSE]
    /\ _config = [s \in Sessions |-> DefaultConfig]
    /\ ctor_mode = [s \in Sessions |-> "continuous"]
    /\ _pixel_type = [s \in Sessions |-> "None"]
    /\ closeCalls = [s \in Sessions |-> 0]
    /\ op = [name |-> "none", sess |-> 0]
    /\ calls = <<>>
    /\ result = "ok"
    /\ allOk = TRUE
    /\ createdAfterClose = FALSE
    /\ device \in devices
    /\ snapshot = <<>>
    /\ pc = [s \in Sessions |-> "idle"]
    /\ tmp = [s \in Sessions |-> 0]
    /\ raw \in frames
    /\ converted = <<>>

Init == InitWith({FactoryDevice}, {<<>>})

\* ---- connection ----

\* Outcomes the native layer may produce during one _auto_connect; an outcome
\* of a call that is never reached is fixed at its first value
ConnectOutcomes ==
    {n \in [enum : Status, nDeviceNum : 0..MaxDevices, create : Status, open : Status,
            destroy : Status, gige : BOOLEAN, packet : 0..1, setPacket : Status,
            trigMode : Status, trigSource : Status, payload : Status] :
        /\ (n.enum # 0) => (n.nDeviceNum = 0)
        /\ (n.nDeviceNum = 0) => (n.create = 0)
        /\ (n.create # 0) => (n.open = 0)
        /\ (n.open = 0) => (n.destroy = 0)
        /\ (n.open # 0 \/ n.create # 0 \/ n.nDeviceNum = 0) =>
              (~n.gige /\ n.trigMode = 0 /\ n.trigSource = 0 /\ n.payload = 0)
        /\ (~n.gige) => (n.packet = 0)
        /\ (n.packet = 0) => (n.setPacket = 0)}

\* _auto_connect accepting an index one past the last device
_auto_connect_index_off_by_one(idx, mode, n) ==
    LET c1 == <<<<"MV_CC_EnumDevices", n.enum, n.nDeviceNum>>>>
        c2 == Append(c1, Call("MV_CC_CreateHandle", n.create))
        c3 == Append(c2, Call("MV_CC_OpenDevice", n.open))
        c4 == IF n.gige
              THEN c3 \o <<Call("MV_CC_GetOptimalPacketSize", 0)>>
                      \o (IF n.packet > 0
                          THEN <<Call("MV_CC_SetIntValue:GevSCPSPacketSize", n.setPacket)>>
                          ELSE <<>>)
              ELSE c3
        c5 == IF mode = "trigger"
              THEN c4 \o <<Call("MV_CC_SetEnumValue:TriggerMode", n.trigMode),
                           Call("MV_CC_SetEnumValue:TriggerSource", n.trigSource)>>
              ELSE Append(c4, Call("MV_CC_SetEnumValue:TriggerMode", n.trigMode))
        c6 == Append(c5, Call("MV_CC_GetIntValue:PayloadSize", n.payload))
    IN  IF n.enum # 0 THEN [calls |-> c1, dev |-> "none", err |-> "EnumFailed"]
        ELSE IF n.nDeviceNum = 0 THEN [calls |-> c1, dev |-> "none", err |-> "NoDeviceFound"]
        ELSE IF idx > n.nDeviceNum THEN [calls |-> c1, dev |-> "none", err |-> "IndexOutOfRange"]
        ELSE IF n.create # 0 THEN [calls |-> c2, dev |-> "none", err |-> "CreateHandleFailed"]
        ELSE IF n.open # 0
             THEN [calls |-> Append(c3, Call("MV_CC_DestroyHandle", n.destroy)),
                   dev |-> IF n.destroy = 0 THEN "none" ELSE "handle",
                   err |-> "OpenDeviceFailed"]
        ELSE IF n.payload # 0 THEN [calls |-> c6, dev |-> "open", err |-> "PayloadSizeFailed"]
        ELSE [calls |-> c6, dev |-> "open", err |-> "ok"]

\* HikCamera._auto_connect: the native calls issued, the native handle left
\* behind and the error raised ("ok" when the method returns)
_auto_connect(idx, mode, n) ==
    LET c1 == <<<<"MV_CC_EnumDevices", n.enum, n.nDeviceNum>>>>
        c2 == Append(c1, Call("MV_CC_CreateHandle", n.create))
        c3 == Append(c2, Call("MV_CC_OpenDevice", n.open))
        c4 == IF n.gige
              THEN c3 \o <<Call("MV_CC_GetOptimalPacketSize", 0)>>
                      \o (IF n.packet > 0
                          THEN <<Call("MV_CC_SetIntValue:GevSCPSPacketSize", n.setPacket)>>
                          ELSE <<>>)
              ELSE c3
        c5 == IF mode = "trigger"
              THEN c4 \o <<Call("MV_CC_SetEnumValue:TriggerMode", n.trigMode),
                           Call("MV_CC_SetEnumValue:TriggerSource", n.trigSource)>>
              ELSE Append(c4, Call("MV_CC_SetEnumValue:TriggerMode", n.trigMode))
        c6 == Append(c5, Call("MV_CC_GetIntValue:PayloadSize", n.payload))
    IN  IF n.enum # 0 THEN [calls |-> c1, dev |-> "none", err |-> "EnumFailed"]
        ELSE IF n.nDeviceNum = 0 THEN [calls |-> c1, dev |-> "none", err |-> "NoDeviceFound"]
        ELSE IF idx >= n.nDeviceNum THEN [calls |-> c1, dev |-> "none", err |-> "IndexOutOfRange"]
        ELSE IF n.create # 0 THEN [calls |-> c2, dev |-> "none", err |-> "CreateHandleFailed"]
        ELSE IF n.open # 0
             THEN [calls |-> Append(c3, Call("MV_CC_DestroyHandle", n.destroy)),
                   dev |-> IF n.destroy = 0 THEN "none" ELSE "handle",
                   err |-> "OpenDeviceFailed"]
        ELSE IF n.payload # 0 THEN [calls |-> c6, dev |-> "open", err |-> "PayloadSizeFailed"]
        ELSE [calls |-> c6, dev |-> "open", err |-> "ok"]

\* __init__ marking the SDK initialized before it tests the initializer's status
__init___flag_before_test(s, indices, modes, outcomes) ==
    /\ obj[s] = "none"
    /\ \A t \in Sessions : t < s => obj[t] # "none"
    /\ \E camera_index \in indices, mode \in modes,
          rInit \in (IF _SDK_INITIALIZED THEN {0} ELSE Status), n \in outcomes :
        LET needInit == ~_SDK_INITIALIZED
            c0 == IF needInit THEN <<Call("MV_CC_Initialize", rInit)>> ELSE <<>>
            r == _auto_connect(camera_index, mode, n)
        IN  /\ (mode = "trigger" \/ n.trigSource = 0)
            /\ op' = [name |-> "__init__", sess |-> s]
            /\ nInitialize' = IF needInit THEN nInitialize + 1 ELSE nInitialize
            /\ createdAfterClose' = (createdAfterClose \/ \E t \in Sessions : closeCalls[t] > 0)
            /\ UNCHANGED <<nFinalize, _is_running, was_started, _pixel_type, closeCalls,
                           otherVars>>
            /\ snapshot' = <<>>
            /\ IF needInit /\ rInit # 0
               THEN \* hikcamera.py:92, nothing of the object is set yet
                    /\ obj' = [obj EXCEPT ![s] = "init_failed"]
                    /\ calls' = c0
                    /\ result' = "SdkInitFailed"
                    /\ allOk' = FALSE
                    /\ _SDK_INITIALIZED' = TRUE
                    /\ UNCHANGED <<_SDK_INIT_COUNT, sdkLive, _cam, dev, _config, ctor_mode>>
               ELSE /\ _SDK_INITIALIZED' = TRUE
                    /\ sdkLive' = TRUE
                    /\ _SDK_INIT_COUNT' = _SDK_INIT_COUNT + 1
                    /\ _cam' = [_cam EXCEPT ![s] = "MvCamera"]
                    /\ IF mode \notin TriggerModes
                       THEN \* HikCameraConfig.__post_init__ raises; _is_running is not set yet
                            /\ obj' = [obj EXCEPT ![s] = "config_failed"]
                            /\ calls' = c0
                            /\ result' = "ValueError"
                            /\ allOk' = FALSE
                            /\ UNCHANGED <<dev, _config, ctor_mode>>
                       ELSE /\ obj' = [obj EXCEPT ![s] = IF r.err = "ok" THEN "live"
                                                          ELSE "connect_failed"]
                            /\ _config' = [_config EXCEPT ![s].trigger_mode = mode,
                                                          ![s].camera_index = camera_index]
                            /\ ctor_mode' = [ctor_mode EXCEPT ![s] = mode]
                            /\ dev' = [dev EXCEPT ![s] = r.dev]
                            /\ calls' = c0 \o r.calls
                            /\ result' = r.err
                            /\ allOk' = (allOk /\ AllZero(r.calls) /\ r.err = "ok")

\* HikCamera.__init__: acquire the SDK guard, build the object, connect.
\* The caller's camera_index and trigger_mode are drawn from indices and
\* modes, the native layer's behaviour during the connect from outcomes.
\* Sessions are numbered in the order of their construction.
__init__(s, indices, modes, outcomes) ==
    /\ obj[s] = "none"
    /\ \A t \in Sessions : t < s => obj[t] # "none"
    /\ \E camera_index \in indices, mode \in modes,
          rInit \in (IF _SDK_INITIALIZED THEN {0} ELSE Status), n \in outcomes :
        LET needInit == ~_SDK_INITIALIZED
            c0 == IF needInit THEN <<Call("MV_CC_Initialize", rInit)>> ELSE <<>>
            r == _auto_connect(camera_index, mode, n)
        IN  /\ (mode = "trigger" \/ n.trigSource = 0)
            /\ op' = [name |-> "__init__", sess |-> s]
            /\ nInitialize' = IF needInit THEN nInitialize + 1 ELSE nInitialize
            /\ createdAfterClose' = (createdAfterClose \/ \E t \in Sessions : closeCalls[t] > 0)
            /\ UNCHANGED <<nFinalize, _is_running, was_started, _pixel_type, closeCalls,
                           otherVars>>
            /\ snapshot' = <<>>
            /\ IF needInit /\ rInit # 0
               THEN \* hikcamera.py:92, nothing of the object is set yet
                    /\ obj' = [obj EXCEPT ![s] = "init_failed"]
                    /\ calls' = c0
                    /\ result' = "SdkInitFailed"
                    /\ allOk' = FALSE
                    /\ UNCHANGED <<_SDK_INITIALIZED, _SDK_INIT_COUNT, sdkLive,
                                   _cam, dev, _config, ctor_mode>>
               ELSE /\ _SDK_INITIALIZED' = TRUE
                    /\ sdkLive' = TRUE
                    /\ _SDK_INIT_COUNT' = _SDK_INIT_COUNT + 1
                    /\ _cam' = [_cam EXCEPT ![s] = "MvCamera"]
                    /\ IF mode \notin TriggerModes
                       THEN \* HikCameraConfig.__post_init__ raises; _is_running is not set yet
                            /\ obj' = [obj EXCEPT ![s] = "config_failed"]
                            /\ calls' = c0
                            /\ result' = "ValueError"
                            /\ allOk' = FALSE
                            /\ UNCHANGED <<dev, _config, ctor_mode>>
                       ELSE /\ obj' = [obj EXCEPT ![s] = IF r.err = "ok" THEN "live"
                                                          ELSE "connect_failed"]
                            /\ _config' = [_config EXCEPT ![s].trigger_mode = mode,
                                                          ![s].camera_index = camera_index]
                            /\ ctor_mode' = [ctor_mode EXCEPT ![s] = mode]
                            /\ dev' = [dev EXCEPT ![s] = r.dev]
                            /\ calls' = c0 \o r.calls
                            /\ result' = r.err
                            /\ allOk' = (allOk /\ AllZero(r.calls) /\ r.err = "ok")

\* ---- streaming ----

\* start() without the test of self._is_running
start_always_grabs(s) ==
    /\ obj[s] = "live"
    /\ \E r \in Status :
        /\ op' = [name |-> "start", sess |-> s]
        /\ UNCHANGED <<guardVars, obj, _cam, dev, _config, ctor_mode, _pixel_type,
                       closeCalls, createdAfterClose, otherVars>>
        /\ snapshot' = <<>>
        /\ IF _cam[s] = "None"
           THEN /\ r = 0
                /\ calls' = <<>> /\ result' = "AttributeError"
                /\ allOk' = FALSE
                /\ UNCHANGED <<_is_running, was_started>>
           ELSE /\ calls' = <<Call("MV_CC_StartGrabbing", r)>>
                /\ result' = IF r # 0 THEN "StreamStartFailed" ELSE "ok"
                /\ _is_running' = [_is_running EXCEPT ![s] = (r = 0)]
                /\ was_started' = [was_started EXCEPT ![s] = @ \/ (r = 0)]
                /\ allOk' = (allOk /\ r = 0)

\* start() on a handle that close() did not clear
start_on_closed_handle(s) ==
    /\ obj[s] = "live"
    /\ \E r \in Status :
        /\ op' = [name |-> "start", sess |-> s]
        /\ UNCHANGED <<guardVars, obj, _cam, dev, _config, ctor_mode, _pixel_type,
                       closeCalls, createdAfterClose, otherVars>>
        /\ snapshot' = <<>>
        /\ IF _is_running[s]
           THEN /\ r = 0
                /\ calls' = <<>> /\ result' = "ok"
                /\ UNCHANGED <<_is_running, was_started, allOk>>
           ELSE /\ calls' = <<Call("MV_CC_StartGrabbing", r)>>
                /\ result' = IF r # 0 THEN "StreamStartFailed" ELSE "ok"
                /\ _is_running' = [_is_running EXCEPT ![s] = (r = 0)]
                /\ was_started' = [was_started EXCEPT ![s] = @ \/ (r = 0)]
                /\ allOk' = (allOk /\ r = 0)

\* HikCamera.start; on a closed session self._cam is None and the attribute
\* lookup raises before any native call
start(s) ==
    /\ obj[s] = "live"
    /\ \E r \in Status :
        /\ op' = [name |-> "start", sess |-> s]
        /\ UNCHANGED <<guardVars, obj, _cam, dev, _config, ctor_mode, _pixel_type,
                       closeCalls, createdAfterClose, otherVars>>
        /\ snapshot' = <<>>
        /\ IF _is_running[s]
           THEN /\ r = 0
                /\ calls' = <<>> /\ result' = "ok"
                /\ UNCHANGED <<_is_running, was_started, allOk>>
           ELSE IF _cam[s] = "None"
           THEN /\ r = 0
                /\ calls' = <<>> /\ result' = "AttributeError"
                /\ allOk' = FALSE
                /\ UNCHANGED <<_is_running, was_started>>
           ELSE /\ calls' = <<Call("MV_CC_StartGrabbing", r)>>
                /\ result' = IF r # 0 THEN "StreamStartFailed" ELSE "ok"
                /\ _is_running' = [_is_running EXCEPT ![s] = (r = 0)]
                /\ was_started' = [was_started EXCEPT ![s] = @ \/ (r = 0)]
                /\ allOk' = (allOk /\ r = 0)

\* stop() clearing self._is_running before it looks at the native status
stop_clears_before_check(s) ==
    /\ obj[s] = "live"
    /\ \E r \in Status :
        /\ op' = [name |-> "stop", sess |-> s]
        /\ UNCHANGED <<guardVars, obj, _cam, dev, was_started, _config, ctor_mode,
                       _pixel_type, closeCalls, createdAfterClose, otherVars>>
        /\ snapshot' = <<>>
        /\ IF ~_is_running[s]
           THEN /\ r = 0
                /\ calls' = <<>> /\ result' = "ok"
                /\ UNCHANGED <<_is_running, allOk>>
           ELSE /\ calls' = <<Call("MV_CC_StopGrabbing", r)>>
                /\ result' = IF r # 0 THEN "StreamStopFailed" ELSE "ok"
                /\ _is_running' = [_is_running EXCEPT ![s] = FALSE]
                /\ allOk' = (allOk /\ r = 0)

\* HikCamera.stop
stop(s) ==
    /\ obj[s] = "live"
    /\ \E r \in Status :
        /\ op' = [name |-> "stop", sess |-> s]
        /\ UNCHANGED <<guardVars, obj, _cam, dev, was_started, _config, ctor_mode,
                       _pixel_type, closeCalls, createdAfterClose, otherVars>>
        /\ snapshot' = <<>>
        /\ IF ~_is_running[s]
           THEN /\ r = 0
                /\ calls' = <<>> /\ result' = "ok"
                /\ UNCHANGED <<_is_running, allOk>>
           ELSE /\ calls' = <<Call("MV_CC_StopGrabbing", r)>>
                /\ result' = IF r # 0 THEN "StreamStopFailed" ELSE "ok"
                /\ _is_running' = [_is_running EXCEPT ![s] = (r # 0)]
                /\ allOk' = (allOk /\ r = 0)

\* ---- teardown ----

\* Statuses the native layer may return during one close(); a status of a
\* call that is not reached is fixed at 0
CloseOutcomes(s) ==
    {n \in [stop : Status, closeDevice : Status, destroy : Status] :
        /\ (~_is_running[s]) => (n.stop = 0)
        /\ (n.stop # 0 \/ _cam[s] = "None") => (n.closeDevice = 0 /\ n.destroy = 0)}

\* close() releasing the guard with the finaliser run on every release
close_finalize_always(s, n) ==
    LET c1 == IF _is_running[s] THEN <<Call("MV_CC_StopGrabbing", n.stop)>> ELSE <<>>
        c2 == IF _cam[s] # "None"
              THEN c1 \o <<Call("MV_CC_CloseDevice", n.closeDevice),
                           Call("MV_CC_DestroyHandle", n.destroy)>>
              ELSE c1
    IN  IF _is_running[s] /\ n.stop # 0
        THEN [err |-> "StreamStopFailed", calls |-> c1, running |-> TRUE,
              cam |-> _cam[s], dev |-> dev[s], count |-> _SDK_INIT_COUNT,
              initialized |-> _SDK_INITIALIZED, finalize |-> FALSE]
        ELSE [err |-> "ok",
              calls |-> Append(c2, Call("MV_CC_Finalize", 0)),
              running |-> FALSE,
              cam |-> "None",
              dev |-> IF _cam[s] = "None" THEN dev[s]
                      ELSE IF n.destroy = 0 THEN "none"
                      ELSE IF n.closeDevice = 0 /\ dev[s] = "open" THEN "handle"
                      ELSE dev[s],
              count |-> _SDK_INIT_COUNT - 1,
              initialized |-> FALSE,
              finalize |-> TRUE]

\* close() releasing the guard before it tears the handle down
close_release_before_teardown(s, n) ==
    LET c1 == IF _is_running[s] THEN <<Call("MV_CC_StopGrabbing", n.stop)>> ELSE <<>>
        count == _SDK_INIT_COUNT - 1
        finalize == count <= 0
        c2 == IF finalize THEN Append(c1, Call("MV_CC_Finalize", 0)) ELSE c1
    IN  IF _is_running[s] /\ n.stop # 0
        THEN [err |-> "StreamStopFailed", calls |-> c1, running |-> TRUE,
              cam |-> _cam[s], dev |-> dev[s], count |-> _SDK_INIT_COUNT,
              initialized |-> _SDK_INITIALIZED, finalize |-> FALSE]
        ELSE [err |-> "ok",
              calls |-> IF _cam[s] # "None"
                        THEN c2 \o <<Call("MV_CC_CloseDevice", n.closeDevice),
                                     Call("MV_CC_DestroyHandle", n.destroy)>>
                        ELSE c2,
              running |-> FALSE,
              cam |-> "None",
              dev |-> IF _cam[s] = "None" THEN dev[s]
                      ELSE IF n.destroy = 0 THEN "none"
                      ELSE IF n.closeDevice = 0 /\ dev[s] = "open" THEN "handle"
                      ELSE dev[s],
              count |-> count,
              initialized |-> IF finalize THEN FALSE ELSE _SDK_INITIALIZED,
              finalize |-> finalize]

\* HikCamera.close on a fully constructed object: the native calls issued, the
\* error raised ("ok" when the method returns) and the values it leaves behind
close(s, n) ==
    LET c1 == IF _is_running[s] THEN <<Call("MV_CC_StopGrabbing", n.stop)>> ELSE <<>>
        c2 == IF _cam[s] # "None"
              THEN c1 \o <<Call("MV_CC_CloseDevice", n.closeDevice),
                           Call("MV_CC_DestroyHandle", n.destroy)>>
              ELSE c1
        count == _SDK_INIT_COUNT - 1
        finalize == count <= 0
    IN  IF _is_running[s] /\ n.stop # 0
        THEN \* self.stop() raises out of close(), hikcamera.py:314
             [err |-> "StreamStopFailed", calls |-> c1, running |-> TRUE,
              cam |-> _cam[s], dev |-> dev[s], count |-> _SDK_INIT_COUNT,
              initialized |-> _SDK_INITIALIZED, finalize |-> FALSE]
        ELSE [err |-> "ok",
              calls |-> IF finalize THEN Append(c2, Call("MV_CC_Finalize", 0)) ELSE c2,
              running |-> FALSE,
              cam |-> "None",
              dev |-> IF _cam[s] = "None" THEN dev[s]
                      ELSE IF n.destroy = 0 THEN "none"
                      ELSE IF n.closeDevice = 0 /\ dev[s] = "open" THEN "handle"
                      ELSE dev[s],
              count |-> count,
              initialized |-> IF finalize THEN FALSE ELSE _SDK_INITIALIZED,
              finalize |-> finalize]

\* the assignments of one close() invocation on session s with effect r
\* (everything but the object's own fields)
ApplyClose(s, r) ==
    /\ calls' = r.calls
    /\ dev' = [dev EXCEPT ![s] = r.dev]
    /\ _SDK_INIT_COUNT' = r.count
    /\ _SDK_INITIALIZED' = r.initialized
    /\ sdkLive' = IF r.finalize THEN FALSE ELSE sdkLive
    /\ nFinalize' = IF r.finalize THEN nFinalize + 1 ELSE nFinalize
    /\ closeCalls' = [closeCalls EXCEPT ![s] = @ + 1]
    /\ allOk' = (allOk /\ AllZero(r.calls))
    /\ UNCHANGED <<nInitialize, createdAfterClose, otherVars>>
    /\ snapshot' = <<>>

\* a caller invokes close() on a session it holds
Close(s) ==
    /\ obj[s] = "live"
    /\ closeCalls[s] < MaxCloseCalls
    /\ \E n \in CloseOutcomes(s) :
        /\ op' = [name |-> "close", sess |-> s]
        /\ result' = close(s, n).err
        /\ ApplyClose(s, close(s, n))
        /\ _is_running' = [_is_running EXCEPT ![s] = close(s, n).running]
        /\ _cam' = [_cam EXCEPT ![s] = close(s, n).cam]
        /\ UNCHANGED <<obj, was_started, _config, ctor_mode, _pixel_type>>

\* HikCamera.__exit__: the context manager's scope exit calls close()
__exit__(s) ==
    /\ obj[s] = "live"
    /\ closeCalls[s] < MaxCloseCalls
    /\ \E n \in CloseOutcomes(s) :
        /\ op' = [name |-> "__exit__", sess |-> s]
        /\ result' = close(s, n).err
        /\ ApplyClose(s, close(s, n))
        /\ _is_running' = [_is_running EXCEPT ![s] = close(s, n).running]
        /\ _cam' = [_cam EXCEPT ![s] = close(s, n).cam]
        /\ UNCHANGED <<obj, was_started, _config, ctor_mode, _pixel_type>>

\* HikCamera.__del__: the object is collected; close() runs with every
\* exception swallowed.  When __init__ raised before self._is_running was
\* assigned, close() stops at the attribute lookup and changes nothing.
\* Afterwards the object and its fields are gone; the native handle is not.
__del__(s) ==
    /\ obj[s] \in {"init_failed", "config_failed", "connect_failed", "live"}
    /\ op' = [name |-> "__del__", sess |-> s]
    /\ result' = "ok"
    /\ obj' = [obj EXCEPT ![s] = "gone"]
    /\ _cam' = [_cam EXCEPT ![s] = "unset"]
    /\ _is_running' = [_is_running EXCEPT ![s] = FALSE]
    /\ was_started' = [was_started EXCEPT ![s] = FALSE]
    /\ _config' = [_config EXCEPT ![s] = DefaultConfig]
    /\ ctor_mode' = [ctor_mode EXCEPT ![s] = "continuous"]
    /\ _pixel_type' = [_pixel_type EXCEPT ![s] = "None"]
    /\ IF obj[s] \in {"init_failed", "config_failed"}
       THEN /\ calls' = <<>>
            /\ closeCalls' = [closeCalls EXCEPT ![s] = @ + 1]
            /\ UNCHANGED <<guardVars, dev, allOk, createdAfterClose, otherVars>>
            /\ snapshot' = <<>>
       ELSE \E n \in CloseOutcomes(s) : ApplyClose(s, close(s, n))

\* ---- frame conversion ----

\* utils.is_rgb_format
is_rgb_format(pixel_type) ==
    pixel_type \in {"RGB8_Packed", "BGR8_Packed", "RGBA8_Packed", "BGRA8_Packed"}

\* the keys of utils.BAYER_TO_COLOR_CODE
BAYER_TO_COLOR_CODE ==
    [p \in {"BayerGR8", "BayerGR10", "BayerGR12", "BayerGR10_Packed", "BayerGR12_Packed"} |-> 0]
    @@ [p \in {"BayerRG8", "BayerRG10", "BayerRG12", "BayerRG10_Packed", "BayerRG12_Packed"} |-> 1]
    @@ [p \in {"BayerGB8", "BayerGB10", "BayerGB12", "BayerGB10_Packed", "BayerGB12_Packed"} |-> 2]
    @@ [p \in {"BayerBG8", "BayerBG10", "BayerBG12", "BayerBG10_Packed", "BayerBG12_Packed"} |-> 3]

\* utils.is_bayer_format
is_bayer_format(pixel_type) == pixel_type \in DOMAIN BAYER_TO_COLOR_CODE

\* utils.is_mono_format
is_mono_format(pixel_type) ==
    pixel_type \in {"Mono8", "Mono10", "Mono10_Packed", "Mono12", "Mono12_Packed", "Mono16"}

\* ndarray.reshape of a flat array of `len` bytes: the element counts must agree
reshape(len, shape) ==
    LET size == IF Len(shape) = 2 THEN shape[1] * shape[2]
                ELSE shape[1] * shape[2] * shape[3]
    IN  IF len = size THEN [err |-> "ok", shape |-> shape]
        ELSE [err |-> "ValueError", shape |-> <<>>]

\* HikCamera._convert_frame_to_bgr: the shape of the image returned, or the
\* error raised.  cv2.cvtColor turns an h x w (x c) array into h x w x 3.
_convert_frame_to_bgr(f) ==
    LET width == f.nWidth
        height == f.nHeight
        pixel_type == f.enPixelType
        frame_len == f.nFrameLen
        image == IF is_rgb_format(pixel_type)
                 THEN IF pixel_type \in {"RGB8_Packed", "BGR8_Packed"}
                      THEN reshape(frame_len, <<height, width, 3>>)
                      ELSE reshape(frame_len, <<height, width, 4>>)
                 ELSE IF is_bayer_format(pixel_type) \/ is_mono_format(pixel_type)
                 THEN reshape(frame_len, <<height, width>>)
                 ELSE [err |-> "UnsupportedPixelFormat", shape |-> <<>>]
    IN  IF image.err # "ok" THEN image
        ELSE [err |-> "ok", shape |-> <<image.shape[1], image.shape[2], 3>>]

\* bits one pixel occupies in a frame the driver delivers (encoded in the
\* vendor's pixel-type code)
BitsPerPixel(pixel_type) ==
    IF pixel_type \in {"Mono8", "BayerGR8", "BayerRG8", "BayerGB8", "BayerBG8"} THEN 8
    ELSE IF pixel_type \in {"RGB8_Packed", "BGR8_Packed"} THEN 24
    ELSE IF pixel_type \in {"RGBA8_Packed", "BGRA8_Packed"} THEN 32
    ELSE IF pixel_type \in {"Mono10_Packed", "Mono12_Packed",
                            "BayerGR10_Packed", "BayerRG10_Packed", "BayerGB10_Packed",
                            "BayerBG10_Packed", "BayerGR12_Packed", "BayerRG12_Packed",
                            "BayerGB12_Packed", "BayerBG12_Packed"} THEN 12
    ELSE 16

\* the frames a driver streaming the given pixel types may deliver
Frames(types) ==
    {[enPixelType |-> p, nWidth |-> w, nHeight |-> h,
      nFrameLen |-> (w * h * BitsPerPixel(p) + 7) \div 8] :
        p \in types, w \in 1..MaxDim, h \in 1..MaxDim}

\* ---- acquisition ----

\* What the native layer may do during one get_image: the status of
\* MV_CC_GetImageBuffer, whether it filled in a buffer address, the frame
\* delivered and the status of MV_CC_FreeImageBuffer
AcquireOutcomes(types) ==
    [get : Status, pBufAddr : {"None", "buffer"}, frame : Frames(types), free : Status]

\* get_image without the streaming check
get_image_unguarded(s, n) ==
    LET c1 == <<<<"MV_CC_GetImageBuffer", n.get, n.pBufAddr>>>>
        image == _convert_frame_to_bgr(n.frame)
    IN  IF n.pBufAddr = "None" \/ n.get # 0
        THEN [err |-> "AcquisitionFailed", calls |-> c1, pixel_type |-> _pixel_type[s]]
        ELSE [err |-> image.err,
              calls |-> Append(c1, Call("MV_CC_FreeImageBuffer", n.free)),
              pixel_type |-> n.frame.enPixelType]

\* get_image releasing the buffer only after a successful conversion
get_image_no_finally(s, n) ==
    IF ~_is_running[s]
    THEN [err |-> "NotStreaming", calls |-> <<>>, pixel_type |-> _pixel_type[s]]
    ELSE LET c1 == <<<<"MV_CC_GetImageBuffer", n.get, n.pBufAddr>>>>
             image == _convert_frame_to_bgr(n.frame)
         IN  IF n.pBufAddr = "None" \/ n.get # 0
             THEN [err |-> "AcquisitionFailed", calls |-> c1, pixel_type |-> _pixel_type[s]]
             ELSE [err |-> image.err,
                   calls |-> IF image.err = "ok"
                             THEN Append(c1, Call("MV_CC_FreeImageBuffer", n.free))
                             ELSE c1,
                   pixel_type |-> n.frame.enPixelType]

\* HikCamera.get_image: the native calls issued, the error raised ("ok" when
\* an image is returned) and the value left in self._pixel_type.  The
\* timeout (argument or configured) is only handed to the native call.
get_image(s, n) ==
    IF ~_is_running[s]
    THEN [err |-> "NotStreaming", calls |-> <<>>, pixel_type |-> _pixel_type[s]]
    ELSE LET c1 == <<<<"MV_CC_GetImageBuffer", n.get, n.pBufAddr>>>>
             image == _convert_frame_to_bgr(n.frame)
         IN  IF n.pBufAddr = "None" \/ n.get # 0
             THEN [err |-> "AcquisitionFailed", calls |-> c1, pixel_type |-> _pixel_type[s]]
             ELSE [err |-> image.err,
                   calls |-> Append(c1, Call("MV_CC_FreeImageBuffer", n.free)),
                   pixel_type |-> n.frame.enPixelType]

\* trigger_and_get_image consulting the mode the session was constructed with
trigger_and_get_image_stale_mode(s, rTrigger, n) ==
    IF ctor_mode[s] # "trigger"
    THEN [err |-> "WrongTriggerMode", calls |-> <<>>, pixel_type |-> _pixel_type[s]]
    ELSE IF _cam[s] = "None"
    THEN [err |-> "AttributeError", calls |-> <<>>, pixel_type |-> _pixel_type[s]]
    ELSE LET c1 == <<Call("MV_CC_SetCommandValue:TriggerSoftware", rTrigger)>>
             g == get_image(s, n)
         IN  IF rTrigger # 0
             THEN [err |-> "TriggerFailed", calls |-> c1, pixel_type |-> _pixel_type[s]]
             ELSE [err |-> g.err, calls |-> c1 \o g.calls, pixel_type |-> g.pixel_type]

\* HikCamera.trigger_and_get_image; on a closed session self._cam is None and
\* the attribute lookup raises before the command is sent
trigger_and_get_image(s, rTrigger, n) ==
    IF _config[s].trigger_mode # "trigger"
    THEN [err |-> "WrongTriggerMode", calls |-> <<>>, pixel_type |-> _pixel_type[s]]
    ELSE IF _cam[s] = "None"
    THEN [err |-> "AttributeError", calls |-> <<>>, pixel_type |-> _pixel_type[s]]
    ELSE LET c1 == <<Call("MV_CC_SetCommandValue:TriggerSoftware", rTrigger)>>
             g == get_image(s, n)
         IN  IF rTrigger # 0
             THEN [err |-> "TriggerFailed", calls |-> c1, pixel_type |-> _pixel_type[s]]
             ELSE [err |-> g.err, calls |-> c1 \o g.calls, pixel_type |-> g.pixel_type]

\* an acquisition whose failure ends the streaming
ApplyAcquire_failure_stops(s, r) ==
    /\ calls' = r.calls
    /\ result' = r.err
    /\ _pixel_type' = [_pixel_type EXCEPT ![s] = r.pixel_type]
    /\ _is_running' = [_is_running EXCEPT ![s] = @ /\ r.err # "AcquisitionFailed"]
    /\ allOk' = (allOk /\ AllZero(r.calls) /\ r.err = "ok")
    /\ UNCHANGED <<guardVars, obj, _cam, dev, was_started, _config,
                   ctor_mode, closeCalls, createdAfterClose, otherVars>>
    /\ snapshot' = <<>>

\* the assignments of one acquisition on session s with effect r
ApplyAcquire(s, r) ==
    /\ calls' = r.calls
    /\ result' = r.err
    /\ _pixel_type' = [_pixel_type EXCEPT ![s] = r.pixel_type]
    /\ allOk' = (allOk /\ AllZero(r.calls) /\ r.err = "ok")
    /\ UNCHANGED <<guardVars, obj, _cam, dev, _is_running, was_started, _config,
                   ctor_mode, closeCalls, createdAfterClose, otherVars>>
    /\ snapshot' = <<>>

\* a caller invokes get_image() on a session it holds
GetImage(s, types) ==
    /\ obj[s] = "live"
    /\ \E n \in AcquireOutcomes(types) :
        /\ op' = [name |-> "get_image", sess |-> s]
        /\ ApplyAcquire(s, get_image(s, n))

\* a caller invokes trigger_and_get_image() on a session it holds
TriggerAndGetImage(s, types) ==
    /\ obj[s] = "live"
    /\ \E rTrigger \in Status, n \in AcquireOutcomes(types) :
        /\ op' = [name |-> "trigger_and_get_image", sess |-> s]
        /\ ApplyAcquire(s, trigger_and_get_image(s, rTrigger, n))

\* ---- parameters ----

\* An absent (None) numeric argument is <<>>, a supplied one <<v>>; an absent
\* trigger_mode is "None".  The fps argument is a float, given in halves of a
\* frame per second: <<k>> stands for k/2.
NoParams ==
    [width |-> <<>>, height |-> <<>>, exposure |-> <<>>, gain |-> <<>>, fps |-> <<>>,
     trigger_mode |-> "None", offset_x |-> <<>>, offset_y |-> <<>>]

\* Python's int() on the float k/2: truncation towards zero
int(k) == IF k >= 0 THEN k \div 2 ELSE -((-k) \div 2)

\* the native writes of set_params, in the order the code reaches them
ParamWrites ==
    <<"width", "height", "exposureFloat", "exposureInt", "gain", "analogGain", "fps",
      "trigMode", "trigSource", "offset_x", "offset_y">>

\* write k of set_params(a) is reached when the statuses n of the writes
\* before it are as given: its field is supplied, a fallback write's first
\* attempt failed, and no setter before it raised
WriteReached(a, k, n) ==
    LET w == ParamWrites[k]
        supplied == CASE w = "width" -> a.width # <<>>
                      [] w = "height" -> a.height # <<>>
                      [] w = "exposureFloat" -> a.exposure # <<>>
                      [] w = "exposureInt" -> a.exposure # <<>> /\ n.exposureFloat # 0
                      [] w = "gain" -> a.gain # <<>>
                      [] w = "analogGain" -> a.gain # <<>> /\ n.gain # 0
                      [] w = "fps" -> a.fps # <<>>
                      [] w = "trigMode" -> a.trigger_mode \in TriggerModes
                      [] w = "trigSource" -> a.trigger_mode = "trigger"
                      [] w = "offset_x" -> a.offset_x # <<>>
                      [] w = "offset_y" -> a.offset_y # <<>>
        raised == \/ n.width # 0
                  \/ n.height # 0
                  \/ n.exposureInt # 0
                  \/ n.fps # 0
                  \/ (k > 9 /\ a.trigger_mode \notin TriggerModes \cup {"None"})
                  \/ n.offset_x # 0
    IN  supplied /\ ~raised

\* the outcomes of set_params(a) that extend the statuses n from write k on
RECURSIVE ParamOutcomesFrom(_, _, _)
ParamOutcomesFrom(a, k, n) ==
    IF k > Len(ParamWrites) THEN {n}
    ELSE UNION {ParamOutcomesFrom(a, k + 1, [n EXCEPT ![ParamWrites[k]] = v]) :
                    v \in IF WriteReached(a, k, n) THEN Status ELSE {0}}

\* Statuses the native layer may return during set_params(a); a status of a
\* write that is not reached is fixed at 0
ParamOutcomes(a) ==
    ParamOutcomesFrom(a, 1, [w \in {ParamWrites[k] : k \in DOMAIN ParamWrites} |-> 0])

\* a setter that stores cfg and then fails hard when its one native write
\* fails; a write that succeeds leaves the camera holding `written`
HardWrite(st, closed, cfg, name, status, err, written) ==
    IF closed
    THEN [cfg |-> cfg, calls |-> st.calls, err |-> "AttributeError", device |-> st.device]
    ELSE [cfg |-> cfg, calls |-> Append(st.calls, Call(name, status)),
          err |-> IF status # 0 THEN err ELSE "ok",
          device |-> IF status = 0 THEN written ELSE st.device]

\* a setter that stores cfg and falls back to a second native write when the
\* first fails; soft: the failure of both is only printed
FallbackWrite(st, closed, cfg, name1, status1, name2, status2, err, soft, written) ==
    IF closed
    THEN [cfg |-> cfg, calls |-> st.calls, err |-> "AttributeError", device |-> st.device]
    ELSE IF status1 = 0
    THEN [cfg |-> cfg, calls |-> Append(st.calls, Call(name1, status1)), err |-> "ok",
          device |-> written]
    ELSE [cfg |-> cfg,
          calls |-> st.calls \o <<Call(name1, status1), Call(name2, status2)>>,
          err |-> IF status2 # 0 /\ ~soft THEN err ELSE "ok",
          device |-> IF status2 = 0 THEN written ELSE st.device]

\* the setter is not reached: an earlier one raised, or the argument is absent
Skipped(st, arg) == st.err # "ok" \/ arg = <<>>

\* HikCamera.width (setter)
width(st, closed, arg, status) ==
    IF Skipped(st, arg) THEN st
    ELSE HardWrite(st, closed, [st.cfg EXCEPT !.width = arg[1]],
                   "MV_CC_SetIntValue:Width", status, "SetWidthFailed",
                   [st.device EXCEPT !.width = arg[1]])

\* HikCamera.height (setter)
height(st, closed, arg, status) ==
    IF Skipped(st, arg) THEN st
    ELSE HardWrite(st, closed, [st.cfg EXCEPT !.height = arg[1]],
                   "MV_CC_SetIntValue:Height", status, "SetHeightFailed",
                   [st.device EXCEPT !.height = arg[1]])

\* HikCamera.exposure (setter)
exposure(st, closed, arg, statusFloat, statusInt) ==
    IF Skipped(st, arg) THEN st
    ELSE FallbackWrite(st, closed, [st.cfg EXCEPT !.exposure = arg[1]],
                       "MV_CC_SetFloatValue:ExposureTime", statusFloat,
                       "MV_CC_SetIntValue:ExposureTime", statusInt,
                       "SetExposureTimeFailed", FALSE,
                       [st.device EXCEPT !.exposure = arg[1]])

\* the gain setter failing as hard as the others
gain_hard_failure(st, closed, arg, statusGain, statusAnalog) ==
    IF Skipped(st, arg) THEN st
    ELSE FallbackWrite(st, closed, [st.cfg EXCEPT !.gain = arg[1]],
                       "MV_CC_SetFloatValue:Gain", statusGain,
                       "MV_CC_SetFloatValue:AnalogGain", statusAnalog,
                       "SetGainFailed", FALSE,
                       [st.device EXCEPT !.gain = arg[1]])

\* HikCamera.gain (setter)
gain(st, closed, arg, statusGain, statusAnalog) ==
    IF Skipped(st, arg) THEN st
    ELSE FallbackWrite(st, closed, [st.cfg EXCEPT !.gain = arg[1]],
                       "MV_CC_SetFloatValue:Gain", statusGain,
                       "MV_CC_SetFloatValue:AnalogGain", statusAnalog,
                       "SetGainFailed", TRUE,
                       [st.device EXCEPT !.gain = arg[1]])

\* HikCamera.fps (setter)
fps(st, closed, arg, status) ==
    IF Skipped(st, arg) THEN st
    ELSE HardWrite(st, closed, [st.cfg EXCEPT !.fps = int(arg[1])],
                   "MV_CC_SetFloatValue:AcquisitionFrameRate", status,
                   "SetAcquisitionFrameRateFailed",
                   [st.device EXCEPT !.fps = arg[1]])

\* the trigger-mode branch of HikCamera.set_params
set_trigger_mode(st, closed, mode, statusMode, statusSource) ==
    IF st.err # "ok" \/ mode = "None" THEN st
    ELSE IF mode \notin TriggerModes THEN [st EXCEPT !.err = "InvalidTriggerMode"]
    ELSE IF closed
    THEN [cfg |-> [st.cfg EXCEPT !.trigger_mode = mode], calls |-> st.calls,
          err |-> "AttributeError", device |-> st.device]
    ELSE [cfg |-> [st.cfg EXCEPT !.trigger_mode = mode], device |-> st.device,
          calls |-> IF mode = "trigger"
                    THEN st.calls \o
                         <<Call("MV_CC_SetEnumValue:TriggerMode", statusMode),
                           Call("MV_CC_SetEnumValue:TriggerSource", statusSource)>>
                    ELSE Append(st.calls, Call("MV_CC_SetEnumValue:TriggerMode", statusMode)),
          err |-> "ok"]

\* HikCamera._set_offset_x
_set_offset_x(st, closed, arg, status) ==
    IF Skipped(st, arg) THEN st
    ELSE HardWrite(st, closed, st.cfg, "MV_CC_SetIntValue:OffsetX", status,
                   "SetOffsetXFailed", [st.device EXCEPT !.offset_x = arg[1]])

\* HikCamera._set_offset_y
_set_offset_y(st, closed, arg, status) ==
    IF Skipped(st, arg) THEN st
    ELSE HardWrite(st, closed, st.cfg, "MV_CC_SetIntValue:OffsetY", status,
                   "SetOffsetYFailed", [st.device EXCEPT !.offset_y = arg[1]])

\* set_params applying fps before gain
set_params_fps_before_gain(s, a, n) ==
    LET closed == _cam[s] = "None"
        st0 == [cfg |-> _config[s], calls |-> <<>>, err |-> "ok", device |-> device]
        st1 == width(st0, closed, a.width, n.width)
        st2 == height(st1, closed, a.height, n.height)
        st3 == exposure(st2, closed, a.exposure, n.exposureFloat, n.exposureInt)
        st4 == fps(st3, closed, a.fps, n.fps)
        st5 == gain(st4, closed, a.gain, n.gain, n.analogGain)
        st6 == set_trigger_mode(st5, closed, a.trigger_mode, n.trigMode, n.trigSource)
        st7 == _set_offset_x(st6, closed, a.offset_x, n.offset_x)
    IN  _set_offset_y(st7, closed, a.offset_y, n.offset_y)

\* HikCamera.set_params: the config left behind, the native writes issued,
\* the error raised ("ok" on return) and the values the camera then holds,
\* the setters applied in the code's order
set_params(s, a, n) ==
    LET closed == _cam[s] = "None"
        st0 == [cfg |-> _config[s], calls |-> <<>>, err |-> "ok", device |-> device]
        st1 == width(st0, closed, a.width, n.width)
        st2 == height(st1, closed, a.height, n.height)
        st3 == exposure(st2, closed, a.exposure, n.exposureFloat, n.exposureInt)
        st4 == gain(st3, closed, a.gain, n.gain, n.analogGain)
        st5 == fps(st4, closed, a.fps, n.fps)
        st6 == set_trigger_mode(st5, closed, a.trigger_mode, n.trigMode, n.trigSource)
        st7 == _set_offset_x(st6, closed, a.offset_x, n.offset_x)
    IN  _set_offset_y(st7, closed, a.offset_y, n.offset_y)

\* a caller invokes set_params() on a session it holds, with arguments from args
SetParams(s, args) ==
    /\ obj[s] = "live"
    /\ \E a \in args : \E n \in ParamOutcomes(a) : \E r \in {set_params(s, a, n)} :
            /\ op' = [name |-> "set_params", sess |-> s, args |-> a]
            /\ calls' = r.calls
            /\ result' = r.err
            /\ _config' = [_config EXCEPT ![s] = r.cfg]
            /\ device' = r.device
            /\ allOk' = (allOk /\ AllZero(r.calls) /\ r.err = "ok")
            /\ UNCHANGED <<guardVars, obj, _cam, dev, _is_running, was_started,
                           ctor_mode, _pixel_type, closeCalls, createdAfterClose,
                           threadVars, converterVars>>
            /\ snapshot' = <<>>

\* the pixel types utils.get_pixel_format_name has a name for; a pixel type
\* is written here as the suffix of its PixelType_Gvsp_ constant
format_names ==
    {"Undefined", "Mono8", "Mono10", "Mono10_Packed", "Mono12", "Mono12_Packed", "Mono16",
     "BayerGR8", "BayerRG8", "BayerGB8", "BayerBG8",
     "BayerGR10", "BayerRG10", "BayerGB10", "BayerBG10",
     "BayerGR10_Packed", "BayerRG10_Packed", "BayerGB10_Packed", "BayerBG10_Packed",
     "BayerGR12", "BayerRG12", "BayerGB12", "BayerBG12",
     "BayerGR12_Packed", "BayerRG12_Packed", "BayerGB12_Packed", "BayerBG12_Packed",
     "RGB8_Packed", "BGR8_Packed", "RGBA8_Packed", "BGRA8_Packed",
     "YUV422_Packed", "YUV422_YUYV_Packed"}

\* utils.get_pixel_format_name
get_pixel_format_name(pixel_type) ==
    IF pixel_type \in format_names THEN pixel_type ELSE "Unknown(0x)"

\* Statuses the native layer may return to the reads of one get_params(); the
\* integer exposure read is only reached when the float read failed
ReadOutcomes ==
    {n \in [exposureFloat : Status, exposureInt : Status, gain : Status, fps : Status,
            offset_x : Status, offset_y : Status] :
        (n.exposureFloat = 0) => (n.exposureInt = 0)}

\* HikCamera._get_exposure: the reads issued and the value returned
_get_exposure(n) ==
    IF n.exposureFloat = 0
    THEN [calls |-> <<Call("MV_CC_GetFloatValue:ExposureTime", n.exposureFloat)>>,
          value |-> device.exposure]
    ELSE [calls |-> <<Call("MV_CC_GetFloatValue:ExposureTime", n.exposureFloat),
                      Call("MV_CC_GetIntValue:ExposureTime", n.exposureInt)>>,
          value |-> IF n.exposureInt = 0 THEN device.exposure ELSE 0]

\* HikCamera._get_gain, _get_fps, _get_offset_x, _get_offset_y: one read, and
\* 0 in place of the value when it fails
_get_value(name, status, held) ==
    [calls |-> <<Call(name, status)>>, value |-> IF status = 0 THEN held ELSE 0]

\* HikCamera.get_params: the reads issued, the error raised and the
\* CameraParams returned.  width, height and trigger_mode are the properties
\* over self._config, pixel_format is named after self._pixel_type.
get_params(s, n) ==
    LET e == _get_exposure(n)
        g == _get_value("MV_CC_GetFloatValue:Gain", n.gain, device.gain)
        f == _get_value("MV_CC_GetFloatValue:AcquisitionFrameRate", n.fps, device.fps)
        x == _get_value("MV_CC_GetIntValue:OffsetX", n.offset_x, device.offset_x)
        y == _get_value("MV_CC_GetIntValue:OffsetY", n.offset_y, device.offset_y)
    IN  IF _cam[s] = "None"
        THEN \* self._cam is None: the first native read raises
             [err |-> "AttributeError", calls |-> <<>>, params |-> <<>>]
        ELSE [err |-> "ok",
              calls |-> e.calls \o g.calls \o f.calls \o x.calls \o y.calls,
              params |-> <<[width |-> _config[s].width, height |-> _config[s].height,
                            exposure |-> e.value, gain |-> g.value, fps |-> f.value,
                            pixel_format |-> IF _pixel_type[s] = "None" THEN "Unknown"
                                             ELSE get_pixel_format_name(_pixel_type[s]),
                            trigger_mode |-> _config[s].trigger_mode,
                            offset_x |-> x.value, offset_y |-> y.value]>>]

\* a caller invokes get_params() on a session it holds
GetParams(s) ==
    /\ obj[s] = "live"
    /\ \E n \in ReadOutcomes : \E r \in {get_params(s, n)} :
            /\ op' = [name |-> "get_params", sess |-> s]
            /\ calls' = r.calls
            /\ result' = r.err
            /\ snapshot' = r.params
            /\ allOk' = (allOk /\ AllZero(r.calls) /\ r.err = "ok")
            /\ UNCHANGED <<guardVars, obj, _cam, dev, _is_running, was_started, _config,
                           ctor_mode, _pixel_type, closeCalls, createdAfterClose,
                           device, threadVars, converterVars>>

\* Statuses the native layer may return to the queries of one property
\* getter; the integer query is only reached when the float query failed
GetterOutcomes == {n \in [float : Status, int : Status] : (n.float = 0) => (n.int = 0)}

\* HikCamera.exposure (getter): the float query, then the integer query when
\* it failed; the error raised, the queries issued and the value returned
\* (the camera holds a whole number of microseconds, which int() of the float
\* query's fCurValue gives back)
get_exposure(n) ==
    IF n.float = 0
    THEN [err |-> "ok", calls |-> <<Call("MV_CC_GetFloatValue:ExposureTime", n.float)>>,
          value |-> <<device.exposure>>]
    ELSE IF n.int = 0
    THEN [err |-> "ok",
          calls |-> <<Call("MV_CC_GetFloatValue:ExposureTime", n.float),
                      Call("MV_CC_GetIntValue:ExposureTime", n.int)>>,
          value |-> <<device.exposure>>]
    ELSE [err |-> "GetExposureTimeFailed",
          calls |-> <<Call("MV_CC_GetFloatValue:ExposureTime", n.float),
                      Call("MV_CC_GetIntValue:ExposureTime", n.int)>>,
          value |-> <<>>]

\* HikCamera.gain (getter): one float query, raising when it fails
get_gain(n) ==
    IF n.float = 0
    THEN [err |-> "ok", calls |-> <<Call("MV_CC_GetFloatValue:Gain", n.float)>>,
          value |-> <<device.gain>>]
    ELSE [err |-> "GetGainFailed", calls |-> <<Call("MV_CC_GetFloatValue:Gain", n.float)>>,
          value |-> <<>>]

\* HikCamera.fps (getter): one float query, raising when it fails
get_fps(n) ==
    IF n.float = 0
    THEN [err |-> "ok", calls |-> <<Call("MV_CC_GetFloatValue:AcquisitionFrameRate", n.float)>>,
          value |-> <<device.fps>>]
    ELSE [err |-> "GetAcquisitionFrameRateFailed",
          calls |-> <<Call("MV_CC_GetFloatValue:AcquisitionFrameRate", n.float)>>,
          value |-> <<>>]

\* the property getters that query the camera
Getters == {"exposure", "gain", "fps"}

\* the getter of property k
getter(k, n) ==
    IF k = "exposure" THEN get_exposure(n)
    ELSE IF k = "gain" THEN get_gain(n)
    ELSE get_fps(n)

\* a caller reads camera.exposure, camera.gain or camera.fps on a session it
\* holds
GetProperty(s) ==
    /\ obj[s] = "live"
    /\ \E k \in Getters, n \in GetterOutcomes :
        \E r \in {IF _cam[s] = "None"
                  THEN [err |-> "AttributeError", calls |-> <<>>, value |-> <<>>]
                  ELSE getter(k, n)} :
            /\ op' = [name |-> "get", sess |-> s, property |-> k]
            /\ calls' = r.calls
            /\ result' = r.err
            /\ snapshot' = r.value
            /\ allOk' = (allOk /\ AllZero(r.calls) /\ r.err = "ok")
            /\ UNCHANGED <<guardVars, obj, _cam, dev, _is_running, was_started, _config,
                           ctor_mode, _pixel_type, closeCalls, createdAfterClose,
                           device, threadVars, converterVars>>

\* the camera's own parameters change under the program: another process or
\* the hardware sets its width
DeviceChanged ==
    /\ \E v \in 1..MaxParam :
        /\ v # device.width
        /\ device' = [device EXCEPT !.width = v]
    /\ op' = [name |-> "device_changed", sess |-> 0]
    /\ calls' = <<>>
    /\ result' = "ok"
    /\ UNCHANGED <<guardVars, obj, _cam, dev, _is_running, was_started, _config,
                   ctor_mode, _pixel_type, closeCalls, allOk, createdAfterClose,
                   threadVars, converterVars>>
    /\ snapshot' = <<>>

\* ---- specification of the session lifecycle ----

\* pixel types streamed in the lifecycle specification: one the converter
\* handles and one it rejects
LifecycleTypes == {"Mono8", "YUV422_Packed"}

\* set_params arguments in the lifecycle specification: the trigger mode,
\* alone or behind a width write
LifecycleParams ==
    {[NoParams EXCEPT !.trigger_mode = m, !.width = w] :
        m \in TriggerArgs \cup {"None"}, w \in {<<>>, <<DefaultConfig.width>>}}

\* the session whose whole life the single-session specification follows
First == {s \in Sessions : \A t \in Sessions : s <= t}

\* one session, every operation
Next ==
    \/ \E s \in First : __init__(s, 0..MaxIndex, TriggerArgs, ConnectOutcomes)
    \/ \E s \in First : start(s)
    \/ \E s \in First : stop(s)
    \/ \E s \in First : GetImage(s, LifecycleTypes)
    \/ \E s \in First : TriggerAndGetImage(s, LifecycleTypes)
    \/ \E s \in First : SetParams(s, LifecycleParams)
    \/ \E s \in First : Close(s)
    \/ \E s \in First : __exit__(s)
    \/ \E s \in First : __del__(s)

Spec == Init /\ [][Next]_vars

\* ---- specification of the SDK guard ----

\* connect behaviours in the guard specification: on a non-GigE transport,
\* one device present or none, the discarded statuses all 0
GuardOutcomes ==
    {n \in ConnectOutcomes :
        ~n.gige /\ n.trigMode = 0 /\ n.trigSource = 0 /\ n.destroy = 0
        /\ n.nDeviceNum \in {0, DefaultConfig.camera_index + 1}}

\* several sessions, created and torn down in any order
NextGuard ==
    \/ \E s \in Sessions : __init__(s, {DefaultConfig.camera_index},
                                     {"continuous", "hardware"}, GuardOutcomes)
    \/ \E s \in Sessions : Close(s)
    \/ \E s \in Sessions : __exit__(s)
    \/ \E s \in Sessions : __del__(s)

SpecGuard == Init /\ [][NextGuard]_vars

\* ---- specification of the parameter interface ----

\* the numeric fields of set_params, in the order of its signature
ParamFields == <<"width", "height", "exposure", "gain", "fps", "offset_x", "offset_y">>

\* combinations of numeric fields a caller supplies: exposure with fps, gain
\* with all that follows it, and all of them
ParamProfiles ==
    {{"exposure", "fps"}, {"gain", "fps", "offset_x", "offset_y"},
     {ParamFields[i] : i \in DOMAIN ParamFields}}

\* set_params arguments: the fields of profile F supplied, width as w, fps as
\* MaxParam + 1/2, every other numeric field as MaxParam, trigger_mode as m
Params(F, w, m) ==
    LET Arg(f, v) == IF f \in F THEN <<v>> ELSE <<>>
    IN  [width |-> Arg("width", w), height |-> Arg("height", MaxParam),
         exposure |-> Arg("exposure", MaxParam), gain |-> Arg("gain", MaxParam),
         fps |-> Arg("fps", 2 * MaxParam + 1), trigger_mode |-> m,
         offset_x |-> Arg("offset_x", MaxParam), offset_y |-> Arg("offset_y", MaxParam)]

\* the set_params calls of the parameter specification; -1 is a width that
\* HikCameraConfig.__post_init__ rejects
ParamArgs ==
    {Params(F, MaxParam, "trigger") : F \in ParamProfiles}
    \cup {Params({"width"}, -1, "None")}
    \cup {Params({}, MaxParam, m) : m \in TriggerArgs}

\* one session on one present camera, its parameters written
NextParams ==
    \/ \E s \in First : __init__(s, {DefaultConfig.camera_index}, TriggerModes, GuardOutcomes)
    \/ \E s \in First : SetParams(s, ParamArgs)

SpecParams == Init /\ [][NextParams]_vars

\* ---- specification of the parameter snapshot ----

\* the set_params calls of the snapshot specification
SnapshotArgs ==
    {Params({"exposure", "fps"}, MaxParam, "None"), Params({"width"}, MaxParam, "None")}

\* one session on one present camera: parameters written and read back, with
\* the camera changing underneath
NextSnapshot ==
    \/ \E s \in First : __init__(s, {DefaultConfig.camera_index}, TriggerModes, GuardOutcomes)
    \/ \E s \in First : SetParams(s, SnapshotArgs)
    \/ \E s \in First : GetParams(s)
    \/ \E s \in First : GetProperty(s)
    \/ DeviceChanged
    \/ \E s \in First : Close(s)

\* the camera starts with any width
InitSnapshot == InitWith(DeviceStates, {<<>>})

SpecSnapshot == InitSnapshot /\ [][NextSnapshot]_vars

\* ---- specification of the SDK guard under threads ----

\* Thread t constructs session t and closes it.  The guard sections of
\* __init__ and close() hold no lock: another thread may run between any two
\* of the steps below (between two bytecodes, and while a native call has
\* released the interpreter lock).

\* what a step of thread t leaves alone besides the guard and the session
ThreadStep(t, name, cs) ==
    /\ op' = [name |-> name, sess |-> t]
    /\ calls' = cs
    /\ result' = "ok"
    /\ snapshot' = <<>>
    /\ UNCHANGED <<_is_running, was_started, _config, ctor_mode, _pixel_type,
                   createdAfterClose, device, converterVars>>

\* hikcamera.py:89, `if not _SDK_INITIALIZED:`
init_test(t) ==
    /\ pc[t] = "idle" /\ obj[t] = "none"
    /\ pc' = [pc EXCEPT ![t] = IF _SDK_INITIALIZED THEN "init_load" ELSE "init_call"]
    /\ obj' = [obj EXCEPT ![t] = "constructing"]
    /\ ThreadStep(t, "init_test", <<>>)
    /\ UNCHANGED <<guardVars, _cam, dev, closeCalls, allOk, tmp>>

\* hikcamera.py:90-92, `ret = MvCamera.MV_CC_Initialize()` and the raise
init_call(t) ==
    /\ pc[t] = "init_call"
    /\ \E r \in Status :
        /\ nInitialize' = nInitialize + 1
        /\ sdkLive' = (sdkLive \/ r = 0)
        /\ allOk' = (allOk /\ r = 0)
        /\ pc' = [pc EXCEPT ![t] = IF r = 0 THEN "init_flag" ELSE "idle"]
        /\ obj' = [obj EXCEPT ![t] = IF r = 0 THEN @ ELSE "init_failed"]
        /\ ThreadStep(t, "init_call", <<Call("MV_CC_Initialize", r)>>)
    /\ UNCHANGED <<_SDK_INITIALIZED, _SDK_INIT_COUNT, nFinalize, _cam, dev, closeCalls, tmp>>

\* hikcamera.py:93, `_SDK_INITIALIZED = True`
init_flag(t) ==
    /\ pc[t] = "init_flag"
    /\ _SDK_INITIALIZED' = TRUE
    /\ pc' = [pc EXCEPT ![t] = "init_load"]
    /\ ThreadStep(t, "init_flag", <<>>)
    /\ UNCHANGED <<_SDK_INIT_COUNT, sdkLive, nInitialize, nFinalize, obj, _cam, dev,
                   closeCalls, allOk, tmp>>

\* hikcamera.py:94, `_SDK_INIT_COUNT += 1`: the load
init_load(t) ==
    /\ pc[t] = "init_load"
    /\ tmp' = [tmp EXCEPT ![t] = _SDK_INIT_COUNT]
    /\ pc' = [pc EXCEPT ![t] = "init_store"]
    /\ ThreadStep(t, "init_load", <<>>)
    /\ UNCHANGED <<guardVars, obj, _cam, dev, closeCalls, allOk>>

\* hikcamera.py:94, `_SDK_INIT_COUNT += 1`: the store; then the rest of the
\* constructor, hikcamera.py:96-107, with the default arguments
init_store(t) ==
    /\ pc[t] = "init_store"
    /\ \E n \in GuardOutcomes :
        LET r == _auto_connect(DefaultConfig.camera_index, DefaultConfig.trigger_mode, n)
        IN  /\ _SDK_INIT_COUNT' = tmp[t] + 1
            /\ _cam' = [_cam EXCEPT ![t] = "MvCamera"]
            /\ dev' = [dev EXCEPT ![t] = r.dev]
            /\ obj' = [obj EXCEPT ![t] = IF r.err = "ok" THEN "live" ELSE "connect_failed"]
            /\ allOk' = (allOk /\ AllZero(r.calls) /\ r.err = "ok")
            /\ pc' = [pc EXCEPT ![t] = "idle"]
            /\ op' = [name |-> "init_store", sess |-> t]
            /\ calls' = r.calls
            /\ result' = r.err
            /\ snapshot' = <<>>
    /\ UNCHANGED <<_SDK_INITIALIZED, sdkLive, nInitialize, nFinalize, closeCalls, tmp,
                   _is_running, was_started, _config, ctor_mode, _pixel_type,
                   createdAfterClose, device, converterVars>>

\* hikcamera.py:311-322, close() up to the guard section, on a session that
\* is not streaming
close_handle(t) ==
    /\ pc[t] = "idle" /\ obj[t] = "live" /\ ~_is_running[t]
    /\ closeCalls[t] < MaxCloseCalls
    /\ \E n \in CloseOutcomes(t) : \E r \in {close(t, n)} :
        /\ _cam' = [_cam EXCEPT ![t] = r.cam]
        /\ dev' = [dev EXCEPT ![t] = r.dev]
        /\ allOk' = (allOk /\ AllZero(r.calls))
        /\ ThreadStep(t, "close_handle",
                      SelectSeq(r.calls, LAMBDA c : c[1] # "MV_CC_Finalize"))
    /\ closeCalls' = [closeCalls EXCEPT ![t] = @ + 1]
    /\ pc' = [pc EXCEPT ![t] = "release_load"]
    /\ UNCHANGED <<guardVars, obj, tmp>>

\* hikcamera.py:325, `_SDK_INIT_COUNT -= 1`: the load
release_load(t) ==
    /\ pc[t] = "release_load"
    /\ tmp' = [tmp EXCEPT ![t] = _SDK_INIT_COUNT]
    /\ pc' = [pc EXCEPT ![t] = "release_store"]
    /\ ThreadStep(t, "release_load", <<>>)
    /\ UNCHANGED <<guardVars, obj, _cam, dev, closeCalls, allOk>>

\* hikcamera.py:325, `_SDK_INIT_COUNT -= 1`: the store
release_store(t) ==
    /\ pc[t] = "release_store"
    /\ _SDK_INIT_COUNT' = tmp[t] - 1
    /\ pc' = [pc EXCEPT ![t] = "release_test"]
    /\ ThreadStep(t, "release_store", <<>>)
    /\ UNCHANGED <<_SDK_INITIALIZED, sdkLive, nInitialize, nFinalize, obj, _cam, dev,
                   closeCalls, allOk, tmp>>

\* hikcamera.py:326, `if _SDK_INIT_COUNT <= 0:`
release_test(t) ==
    /\ pc[t] = "release_test"
    /\ pc' = [pc EXCEPT ![t] = IF _SDK_INIT_COUNT <= 0 THEN "release_call" ELSE "idle"]
    /\ ThreadStep(t, "release_test", <<>>)
    /\ UNCHANGED <<guardVars, obj, _cam, dev, closeCalls, allOk, tmp>>

\* hikcamera.py:327, `MvCamera.MV_CC_Finalize()`
release_call(t) ==
    /\ pc[t] = "release_call"
    /\ nFinalize' = nFinalize + 1
    /\ sdkLive' = FALSE
    /\ pc' = [pc EXCEPT ![t] = "release_flag"]
    /\ ThreadStep(t, "release_call", <<Call("MV_CC_Finalize", 0)>>)
    /\ UNCHANGED <<_SDK_INITIALIZED, _SDK_INIT_COUNT, nInitialize, obj, _cam, dev,
                   closeCalls, allOk, tmp>>

\* hikcamera.py:328, `_SDK_INITIALIZED = False`
release_flag(t) ==
    /\ pc[t] = "release_flag"
    /\ _SDK_INITIALIZED' = FALSE
    /\ pc' = [pc EXCEPT ![t] = "idle"]
    /\ ThreadStep(t, "release_flag", <<>>)
    /\ UNCHANGED <<_SDK_INIT_COUNT, sdkLive, nInitialize, nFinalize, obj, _cam, dev,
                   closeCalls, allOk, tmp>>

\* the threads run in any interleaving
NextThreads ==
    \/ \E t \in Sessions : init_test(t)
    \/ \E t \in Sessions : init_call(t)
    \/ \E t \in Sessions : init_flag(t)
    \/ \E t \in Sessions : init_load(t)
    \/ \E t \in Sessions : init_store(t)
    \/ \E t \in Sessions : close_handle(t)
    \/ \E t \in Sessions : release_load(t)
    \/ \E t \in Sessions : release_store(t)
    \/ \E t \in Sessions : release_test(t)
    \/ \E t \in Sessions : release_call(t)
    \/ \E t \in Sessions : release_flag(t)

SpecThreads == Init /\ [][NextThreads]_vars

\* ---- specification of the frame converter ----

\* the pixel types a camera may deliver
ConvertTypes == format_names \ {"Undefined"}

\* a frame of any of these types and of any size is handed to the converter
InitConvert == InitWith({FactoryDevice}, {<<f>> : f \in Frames(ConvertTypes)})

\* HikCamera._convert_frame_to_bgr is applied to the frame
Convert ==
    /\ raw # <<>> /\ converted = <<>>
    /\ converted' = <<_convert_frame_to_bgr(raw[1])>>
    /\ op' = [name |-> "_convert_frame_to_bgr", sess |-> 0]
    /\ calls' = <<>>
    /\ result' = _convert_frame_to_bgr(raw[1]).err
    /\ snapshot' = <<>>
    /\ UNCHANGED <<guardVars, obj, _cam, dev, _is_running, was_started, _config,
                   ctor_mode, _pixel_type, closeCalls, allOk, createdAfterClose,
                   device, threadVars, raw>>

NextConvert == Convert

SpecConvert == InitConvert /\ [][NextConvert]_vars

\* ---- the session states of the design ----

\* the state the design assigns to session s
State(s) ==
    IF obj[s] = "none" THEN "Disconnected"
    ELSE IF _cam[s] # "MvCamera" THEN "Closed"
    ELSE IF _is_running[s] THEN "Streaming"
    ELSE IF was_started[s] THEN "Stopped"
    ELSE "Connected"

\* session s is held by a caller, connected and not closed
Connected(s) == obj[s] = "live" /\ _cam[s] = "MvCamera"

\* the sessions whose construction has been attempted
Created == {s \in Sessions : obj[s] # "none"}

\* the operation performed last was a close() the caller can see the outcome of
LastIsClose == op.name \in {"close", "__exit__"}

\* ---- C1 ----

\* exactly two sessions were created, both before any close, each has been
\* closed at most once, and nothing has failed
TwoCreatedThenClosed ==
    /\ Cardinality(Created) = 2
    /\ allOk
    /\ ~createdAfterClose
    /\ \A s \in Created : closeCalls[s] <= 1

\* C1: when two sessions are created and then each closed once, in any order
\* and with every native call succeeding, MV_CC_Initialize has been called
\* exactly once, and MV_CC_Finalize not before the last of the two closes and
\* exactly once by then.
C1_InitOnceFinalizeAtLastClose ==
    TwoCreatedThenClosed =>
        /\ nInitialize = 1
        /\ nFinalize = IF \A s \in Created : closeCalls[s] = 1 THEN 1 ELSE 0

C1_Witness ==
    /\ TwoCreatedThenClosed
    /\ \A s \in Created : closeCalls[s] = 1
    /\ nInitialize = 1 /\ nFinalize = 1
    /\ "MV_CC_Finalize" \in Names(calls)

\* ---- C2 ----

\* C2: no step calls MV_CC_Finalize while a session other than the one being
\* closed is still connected and not closed, and no step calls
\* MV_CC_Initialize while the SDK is initialised.
C2_NoTeardownUnderSibling ==
    [][ /\ (nFinalize' > nFinalize) =>
              (\A t \in Sessions \ {op'.sess} : ~Connected(t))
        /\ (nInitialize' > nInitialize) => ~sdkLive ]_vars

\* ---- C3 ----

\* C3: a close() on a session that is already closed raises nothing, issues
\* no native call and leaves _SDK_INIT_COUNT and _SDK_INITIALIZED unchanged.
C3_SecondCloseIsNoOp ==
    [][ (op'.name \in {"close", "__exit__"} /\ closeCalls'[op'.sess] > closeCalls[op'.sess]
         /\ State(op'.sess) = "Closed") =>
            /\ result' = "ok"
            /\ calls' = <<>>
            /\ UNCHANGED <<_SDK_INIT_COUNT, _SDK_INITIALIZED>> ]_vars

\* ---- C4 ----

\* C4: close() returns normally from every session state and for every
\* combination of statuses of stop-grabbing, close-device and destroy-handle.
C4_CloseNeverRaises == LastIsClose => result = "ok"

\* ---- C5 ----

\* C5: a close() on a connected session, streaming or not, ends with the
\* device closed and the handle destroyed (both teardown calls issued, the
\* session holding no camera object) and the guard released exactly once.
C5_CloseAlwaysReleases ==
    [][ (op'.name \in {"close", "__exit__"} /\ closeCalls'[op'.sess] > closeCalls[op'.sess]
         /\ Connected(op'.sess)) =>
            /\ _cam'[op'.sess] = "None"
            /\ {"MV_CC_CloseDevice", "MV_CC_DestroyHandle"} \subseteq Names(calls')
            /\ _SDK_INIT_COUNT' = _SDK_INIT_COUNT - 1 ]_vars

\* ---- C6 ----

\* C6: get_image outside Streaming (Connected, Stopped or Closed) raises
\* NotStreaming without any native call; in Streaming it asks the driver for
\* a buffer.
C6_GetImageOnlyWhenStreaming ==
    (op.name = "get_image") =>
        IF State(op.sess) # "Streaming"
        THEN result = "NotStreaming" /\ calls = <<>>
        ELSE result # "NotStreaming" /\ "MV_CC_GetImageBuffer" \in Names(calls)

C6_Witness ==
    /\ op.name = "get_image"
    /\ State(op.sess) = "Closed"
    /\ was_started[op.sess]
    /\ result = "NotStreaming"
    /\ calls = <<>>

\* ---- C7 ----

\* the call sequence holds a get-image-buffer call that handed over a buffer
Acquired(cs) ==
    \E i \in 1..Len(cs) :
        cs[i][1] = "MV_CC_GetImageBuffer" /\ cs[i][2] = 0 /\ cs[i][3] = "buffer"

\* C7: an acquisition (get_image, also inside trigger_and_get_image) makes at
\* most one get-image-buffer call; when that call handed over a buffer,
\* exactly one free-image-buffer call follows it as the last native call,
\* whether or not the conversion succeeded; otherwise none is made.
C7_BufferReleasedExactlyOnce ==
    (op.name \in {"get_image", "trigger_and_get_image"}) =>
        /\ Count(calls, "MV_CC_GetImageBuffer") <= 1
        /\ IF Acquired(calls)
           THEN /\ Count(calls, "MV_CC_FreeImageBuffer") = 1
                /\ calls[Len(calls)][1] = "MV_CC_FreeImageBuffer"
                /\ calls[Len(calls) - 1][1] = "MV_CC_GetImageBuffer"
           ELSE Count(calls, "MV_CC_FreeImageBuffer") = 0

C7_Witness ==
    /\ op.name = "get_image"
    /\ Acquired(calls)
    /\ result = "UnsupportedPixelFormat"
    /\ Count(calls, "MV_CC_FreeImageBuffer") = 1

\* ---- C8 ----

\* the device count a successful MV_CC_EnumDevices reported, -1 without one
Enumerated(cs) ==
    IF \E i \in 1..Len(cs) : cs[i][1] = "MV_CC_EnumDevices" /\ cs[i][2] = 0
    THEN cs[CHOOSE i \in 1..Len(cs) : cs[i][1] = "MV_CC_EnumDevices"][3]
    ELSE -1

\* C8: a connect whose camera_index is not below the enumerated device count
\* (count > 0) raises the index-out-of-range error, one that enumerates zero
\* devices raises the no-device-found error, and neither makes a
\* create-handle or open-device call.
C8_BadIndexOpensNothing ==
    (op.name = "__init__"
     /\ (Enumerated(calls) = 0 \/ (Enumerated(calls) > 0
            /\ _config[op.sess].camera_index >= Enumerated(calls)))) =>
        /\ result = IF Enumerated(calls) = 0 THEN "NoDeviceFound" ELSE "IndexOutOfRange"
        /\ Names(calls) \cap {"MV_CC_CreateHandle", "MV_CC_OpenDevice"} = {}
        /\ dev[op.sess] = "none"

C8_Witness ==
    /\ op.name = "__init__"
    /\ Enumerated(calls) > 0
    /\ _config[op.sess].camera_index >= Enumerated(calls)
    /\ result = "IndexOutOfRange"

\* ---- C9 ----

\* C9: when connect fails after the handle was created (open-device or
\* payload-size failure), the error reaches the caller with the device not
\* open and the handle destroyed.
C9_FailedConnectLeaksNothing ==
    (op.name = "__init__" /\ result \in {"OpenDeviceFailed", "PayloadSizeFailed"}) =>
        /\ dev[op.sess] # "open"
        /\ "MV_CC_DestroyHandle" \in Names(calls)

\* ---- C10 ----

\* C10: set_params(trigger_mode=m) that returns leaves m as the session's
\* mode; trigger_and_get_image on a session whose mode is then continuous
\* raises WrongTriggerMode without any native call, and on an open session
\* whose mode is trigger it sends the TriggerSoftware command.
C10_TriggerNeedsTriggerMode ==
    /\ (op.name = "set_params" /\ op.args.trigger_mode \in TriggerModes /\ result = "ok") =>
            _config[op.sess].trigger_mode = op.args.trigger_mode
    /\ (op.name = "trigger_and_get_image") =>
            IF _config[op.sess].trigger_mode = "continuous"
            THEN result = "WrongTriggerMode" /\ calls = <<>>
            ELSE result # "WrongTriggerMode"
                 /\ (State(op.sess) # "Closed" =>
                        "MV_CC_SetCommandValue:TriggerSoftware" \in Names(calls))

C10_Witness ==
    /\ op.name = "trigger_and_get_image"
    /\ ctor_mode[op.sess] = "trigger"
    /\ _config[op.sess].trigger_mode = "continuous"
    /\ State(op.sess) = "Streaming"
    /\ result = "WrongTriggerMode"
    /\ calls = <<>>

\* ---- C11 ----

\* the call sequence holds a call of the given name that returned non-zero
Failed(cs, name) == \E i \in 1..Len(cs) : cs[i][1] = name /\ cs[i][2] # 0

\* the native writes set_params(a) issues after the gain setter when none of
\* them fails hard, in order
WritesAfterGain(a) ==
    (IF a.fps # <<>> THEN <<"MV_CC_SetFloatValue:AcquisitionFrameRate">> ELSE <<>>)
    \o (IF a.trigger_mode \in TriggerModes THEN <<"MV_CC_SetEnumValue:TriggerMode">>
        ELSE <<>>)
    \o (IF a.trigger_mode = "trigger" THEN <<"MV_CC_SetEnumValue:TriggerSource">> ELSE <<>>)
    \o (IF a.offset_x # <<>> THEN <<"MV_CC_SetIntValue:OffsetX">> ELSE <<>>)
    \o (IF a.offset_y # <<>> THEN <<"MV_CC_SetIntValue:OffsetY">> ELSE <<>>)

\* the names of the calls that follow the AnalogGain write in a call sequence
NamesAfterGain(cs) ==
    LET g == CHOOSE i \in 1..Len(cs) : cs[i][1] = "MV_CC_SetFloatValue:AnalogGain"
    IN  [i \in 1..(Len(cs) - g) |-> cs[g + i][1]]

\* both native gain writes of the last operation failed
GainWriteFailed ==
    /\ op.name = "set_params"
    /\ Failed(calls, "MV_CC_SetFloatValue:Gain")
    /\ Failed(calls, "MV_CC_SetFloatValue:AnalogGain")

\* C11: when both native gain writes of a set_params fail, the gain setter
\* does not raise and the writes of the supplied fields after gain (fps,
\* trigger mode, offset-x, offset-y) follow in order, all of them unless one
\* of them fails hard itself; a failed width, height, fps, offset-x or
\* offset-y write, and an exposure write whose float and integer attempts
\* both fail, raises that field's error.
C11_GainFailsSoftOthersHard ==
    /\ GainWriteFailed =>
        LET after == NamesAfterGain(calls)
            all == WritesAfterGain(op.args)
        IN  /\ result # "SetGainFailed"
            /\ Len(after) <= Len(all)
            /\ after = SubSeq(all, 1, Len(after))
            /\ result = "ok" => after = all
            /\ after # all => (result # "ok" /\ calls[Len(calls)][2] # 0)
    /\ op.name = "set_params" =>
        /\ Failed(calls, "MV_CC_SetIntValue:Width") => result = "SetWidthFailed"
        /\ Failed(calls, "MV_CC_SetIntValue:Height") => result = "SetHeightFailed"
        /\ Failed(calls, "MV_CC_SetIntValue:ExposureTime") => result = "SetExposureTimeFailed"
        /\ Failed(calls, "MV_CC_SetFloatValue:AcquisitionFrameRate") =>
                result = "SetAcquisitionFrameRateFailed"
        /\ Failed(calls, "MV_CC_SetIntValue:OffsetX") => result = "SetOffsetXFailed"
        /\ Failed(calls, "MV_CC_SetIntValue:OffsetY") => result = "SetOffsetYFailed"

C11_Witness ==
    /\ GainWriteFailed
    /\ result = "ok"
    /\ NamesAfterGain(calls) = WritesAfterGain(op.args)
    /\ Len(WritesAfterGain(op.args)) = 5

\* ---- C12 ----

\* C12: a set_params whose width is not positive raises, and no native Width
\* write is issued for it.
C12_InvalidWidthNeverWritten ==
    (op.name = "set_params" /\ op.args.width # <<>> /\ op.args.width[1] <= 0) =>
        /\ result # "ok"
        /\ "MV_CC_SetIntValue:Width" \notin Names(calls)

\* ---- C13 ----

\* no thread is inside __init__ or close()
Quiescent == \A t \in Sessions : pc[t] = "idle"

\* the sessions that have taken a reference on the guard
Acquirers == {t \in Sessions : obj[t] \in {"live", "connect_failed"}}

\* the sessions that have given it back
Releasers == {t \in Sessions : closeCalls[t] > 0}

\* C13: under any interleaving of threads that construct sessions and close
\* each at most once, with every native call succeeding, MV_CC_Initialize is
\* never called again before MV_CC_Finalize has undone the previous call, and
\* once every thread is outside __init__ and close() the reference count is
\* the number of acquires minus the number of releases and the SDK is live
\* exactly when that count is positive.
C13_GuardSafeUnderThreads ==
    (allOk /\ \A t \in Sessions : closeCalls[t] <= 1) =>
        /\ nInitialize <= nFinalize + 1
        /\ Quiescent =>
            /\ _SDK_INIT_COUNT = Cardinality(Acquirers) - Cardinality(Releasers)
            /\ sdkLive = (_SDK_INIT_COUNT > 0)
            /\ nInitialize - nFinalize = IF _SDK_INIT_COUNT > 0 THEN 1 ELSE 0

\* ---- C14 ----

\* C14: start() on a Streaming session issues no native call and leaves it
\* Streaming; start() on a Connected or Stopped session issues one
\* start-grabbing call and, when that succeeds, leaves it Streaming; stop()
\* on a Connected or Stopped session issues no native call and leaves its
\* state as it was; stop() on a Streaming session issues one stop-grabbing
\* call and, when that succeeds, leaves it Stopped.
C14_StartStopIdempotent ==
    [][\A s \in Sessions :
        /\ (op'.name = "start" /\ op'.sess = s) =>
            /\ State(s) = "Streaming" =>
                (calls' = <<>> /\ result' = "ok" /\ State(s)' = "Streaming")
            /\ State(s) \in {"Connected", "Stopped"} =>
                /\ Names(calls') = {"MV_CC_StartGrabbing"} /\ Len(calls') = 1
                /\ AllZero(calls') => (result' = "ok" /\ State(s)' = "Streaming")
        /\ (op'.name = "stop" /\ op'.sess = s) =>
            /\ State(s) \in {"Connected", "Stopped"} =>
                (calls' = <<>> /\ result' = "ok" /\ State(s)' = State(s))
            /\ State(s) = "Streaming" =>
                /\ Names(calls') = {"MV_CC_StopGrabbing"} /\ Len(calls') = 1
                /\ AllZero(calls') => (result' = "ok" /\ State(s)' = "Stopped")
    ]_vars

\* start() has just returned from a Streaming session without a native call
C14_Witness ==
    /\ op.name = "start"
    /\ State(op.sess) = "Streaming"
    /\ calls = <<>>
    /\ result = "ok"

\* ---- C15 ----

\* C15: a get_image that raises because MV_CC_GetImageBuffer returned a
\* non-zero status (or no buffer) leaves the session Streaming, and a
\* get_image that follows it calls MV_CC_GetImageBuffer again.
C15_FailedAcquisitionKeepsStreaming ==
    [][/\ \A s \in Sessions :
            (op'.name = "get_image" /\ op'.sess = s /\ result' = "AcquisitionFailed") =>
                (_is_running'[s] /\ State(s)' = "Streaming")
       /\ (op.name = "get_image" /\ result = "AcquisitionFailed"
           /\ op'.name = "get_image") =>
            "MV_CC_GetImageBuffer" \in Names(calls')
    ]_vars

\* a get_image has just failed in the native acquisition, the status non-zero
C15_Witness ==
    /\ op.name = "get_image"
    /\ result = "AcquisitionFailed"
    /\ Failed(calls, "MV_CC_GetImageBuffer")
    /\ State(op.sess) = "Streaming"

\* ---- C20 ----

\* C20: a start() whose start-grabbing call fails raises the stream-start
\* error and leaves the session not streaming, in the state it was in; a
\* stop() whose stop-grabbing call fails raises the stream-stop error and
\* leaves the session Streaming.
C20_FailedTransitionKeepsState ==
    [][\A s \in Sessions :
        /\ (op'.name = "start" /\ op'.sess = s /\ Failed(calls', "MV_CC_StartGrabbing")) =>
            /\ result' = "StreamStartFailed"
            /\ ~_is_running'[s]
            /\ State(s)' = State(s)
        /\ (op'.name = "stop" /\ op'.sess = s /\ Failed(calls', "MV_CC_StopGrabbing")) =>
            /\ result' = "StreamStopFailed"
            /\ _is_running'[s]
            /\ State(s) = "Streaming" /\ State(s)' = "Streaming"
    ]_vars

\* a stop() has just failed in the native call
C20_Witness ==
    /\ op.name = "stop"
    /\ Failed(calls, "MV_CC_StopGrabbing")
    /\ result = "StreamStopFailed"
    /\ State(op.sess) = "Streaming"

\* ---- C16 ----

\* the pixel formats the design lists for conversion
ListedFormats ==
    {"Mono8", "Mono16", "BayerGR8", "BayerRG8", "BayerGB8", "BayerBG8",
     "RGB8_Packed", "BGR8_Packed", "RGBA8_Packed", "BGRA8_Packed"}

\* C16: converting a frame of a listed pixel format, of any width and height
\* and with a buffer of width x height x bytes-per-pixel bytes, succeeds and
\* yields an image of shape height x width x 3.
C16_ListedFormatsConvert ==
    (converted # <<>> /\ raw[1].enPixelType \in ListedFormats) =>
        converted[1] = [err |-> "ok", shape |-> <<raw[1].nHeight, raw[1].nWidth, 3>>]

\* ---- C17 ----

\* the position, in the order width, height, exposure, gain, fps, trigger
\* mode, offset-x, offset-y, of the field a native write belongs to
FieldOfWrite(name) ==
    CASE name = "MV_CC_SetIntValue:Width" -> 1
      [] name = "MV_CC_SetIntValue:Height" -> 2
      [] name \in {"MV_CC_SetFloatValue:ExposureTime", "MV_CC_SetIntValue:ExposureTime"} -> 3
      [] name \in {"MV_CC_SetFloatValue:Gain", "MV_CC_SetFloatValue:AnalogGain"} -> 4
      [] name = "MV_CC_SetFloatValue:AcquisitionFrameRate" -> 5
      [] name \in {"MV_CC_SetEnumValue:TriggerMode", "MV_CC_SetEnumValue:TriggerSource"} -> 6
      [] name = "MV_CC_SetIntValue:OffsetX" -> 7
      [] name = "MV_CC_SetIntValue:OffsetY" -> 8

\* the positions of the fields the arguments a supply
Supplied(a) ==
    {k \in 1..8 : <<a.width # <<>>, a.height # <<>>, a.exposure # <<>>, a.gain # <<>>,
                    a.fps # <<>>, a.trigger_mode # "None", a.offset_x # <<>>,
                    a.offset_y # <<>>>>[k]}

\* the position of the field whose error set_params raised
FieldOfError(err) ==
    CASE err = "SetWidthFailed" -> 1
      [] err = "SetHeightFailed" -> 2
      [] err = "SetExposureTimeFailed" -> 3
      [] err = "SetGainFailed" -> 4
      [] err = "SetAcquisitionFrameRateFailed" -> 5
      [] err = "InvalidTriggerMode" -> 6
      [] err = "SetOffsetXFailed" -> 7
      [] err = "SetOffsetYFailed" -> 8

\* the call sequence holds a write whose failure is not tolerated
HardFailed(cs) ==
    \E w \in {"MV_CC_SetIntValue:Width", "MV_CC_SetIntValue:Height",
              "MV_CC_SetIntValue:ExposureTime", "MV_CC_SetFloatValue:AcquisitionFrameRate",
              "MV_CC_SetIntValue:OffsetX", "MV_CC_SetIntValue:OffsetY"} : Failed(cs, w)

\* field k of the arguments a is in force: the session's config holds it
\* and, where its native write succeeded, so does the camera
InForce(s, a, k) ==
    CASE k = 1 -> _config[s].width = a.width[1] /\ device.width = a.width[1]
      [] k = 2 -> _config[s].height = a.height[1] /\ device.height = a.height[1]
      [] k = 3 -> _config[s].exposure = a.exposure[1] /\ device.exposure = a.exposure[1]
      [] k = 4 -> /\ _config[s].gain = a.gain[1]
                  /\ Failed(calls, "MV_CC_SetFloatValue:AnalogGain") \/ device.gain = a.gain[1]
      [] k = 5 -> _config[s].fps = int(a.fps[1]) /\ device.fps = a.fps[1]
      [] k = 6 -> _config[s].trigger_mode = a.trigger_mode
      [] k = 7 -> device.offset_x = a.offset_x[1]
      [] k = 8 -> device.offset_y = a.offset_y[1]

\* C17: the native writes of a set_params belong to supplied fields only and
\* come in the order width, height, exposure, gain, fps, trigger mode,
\* offset-x, offset-y.  When it returns, every supplied field has been
\* written and no write has failed hard.  When it raises, the error is that
\* of a supplied field, the last write is the failed write of that field,
\* every supplied field before it has been written and is still in force,
\* and no supplied field after it has been written.
C17_WritesArePrefixOfFixedOrder ==
    (op.name = "set_params") =>
        LET a == op.args
            f == [i \in 1..Len(calls) |-> FieldOfWrite(calls[i][1])]
            written == {f[i] : i \in 1..Len(calls)}
        IN  /\ \A i, j \in 1..Len(calls) : i < j => f[i] <= f[j]
            /\ written \subseteq Supplied(a)
            /\ result = "ok" =>
                /\ written = Supplied(a)
                /\ ~HardFailed(calls)
                /\ \A k \in Supplied(a) : InForce(op.sess, a, k)
            /\ result # "ok" =>
                LET e == FieldOfError(result)
                IN  /\ e \in Supplied(a)
                    /\ written = {k \in Supplied(a) : k < e} \cup (IF e = 6 THEN {} ELSE {e})
                    /\ e # 6 => (f[Len(calls)] = e /\ calls[Len(calls)][2] # 0)
                    /\ \A k \in Supplied(a) : k < e => InForce(op.sess, a, k)

\* a set_params of every field has just failed at fps: the fields before it
\* are written and in force, the offsets are not written
C17_Witness ==
    /\ op.name = "set_params"
    /\ Supplied(op.args) = 1..8
    /\ result = "SetAcquisitionFrameRateFailed"
    /\ device.width = op.args.width[1]
    /\ "MV_CC_SetIntValue:OffsetX" \notin Names(calls)

\* ---- C18 ----

\* C18: a get_params that returns, all its native reads having succeeded,
\* reports for width, height, exposure, gain, fps, offset-x and offset-y the
\* values the camera holds at that moment.
C18_SnapshotIsLive ==
    (op.name = "get_params" /\ result = "ok" /\ AllZero(calls)) =>
        /\ snapshot[1].width = device.width
        /\ snapshot[1].height = device.height
        /\ snapshot[1].exposure = device.exposure
        /\ snapshot[1].gain = device.gain
        /\ snapshot[1].fps = device.fps
        /\ snapshot[1].offset_x = device.offset_x
        /\ snapshot[1].offset_y = device.offset_y

\* ---- C19 ----

\* C19: when the native write of the width, height, exposure or fps setter
\* fails and the setter raises, the session's config value of that field is
\* what it was before the call.
C19_ConfigKeptOnFailedWrite ==
    [][\A s \in Sessions : (op'.name = "set_params" /\ op'.sess = s) =>
        /\ result' = "SetWidthFailed" => _config'[s].width = _config[s].width
        /\ result' = "SetHeightFailed" => _config'[s].height = _config[s].height
        /\ result' = "SetExposureTimeFailed" => _config'[s].exposure = _config[s].exposure
        /\ result' = "SetAcquisitionFrameRateFailed" => _config'[s].fps = _config[s].fps
    ]_vars

\* ---- C21 ----

\* C21: a construction during whose connect a native call returned a
\* non-success status raises a connection error and does not leave the
\* session Connected; this holds in particular for the TriggerMode and
\* TriggerSource writes.
C21_ConnectAbortsOnAnyFailure ==
    (op.name = "__init__"
        /\ \E i \in 1..Len(calls) :
              calls[i][1] # "MV_CC_Initialize" /\ calls[i][2] # 0) =>
        /\ result # "ok"
        /\ ~Connected(op.sess)

\* ---- C22 ----

\* the name of the camera node property k is read from
NodeOf(k) ==
    IF k = "exposure" THEN "ExposureTime"
    ELSE IF k = "gain" THEN "Gain"
    ELSE "AcquisitionFrameRate"

\* C22: a read of camera.exposure, camera.gain or camera.fps on an open
\* session issues the float query first; when it succeeds that is the only
\* query and the read returns; when it fails the integer query follows, and
\* the read raises only if that one fails too.
C22_GettersTryFloatThenInt ==
    (op.name = "get" /\ Connected(op.sess)) =>
        /\ Len(calls) \in 1..2
        /\ calls[1][1] = "MV_CC_GetFloatValue:" \o NodeOf(op.property)
        /\ calls[1][2] = 0 => (Len(calls) = 1 /\ result = "ok")
        /\ calls[1][2] # 0 =>
              /\ Len(calls) = 2
              /\ calls[2][1] = "MV_CC_GetIntValue:" \o NodeOf(op.property)
              /\ (result = "ok") = (calls[2][2] = 0)

\* ---- C23 ----

\* C23: a construction that starts with the SDK marked uninitialized calls
\* the native initializer first; when the initializer fails with the
\* reference count at 0, the construction raises the initialization error,
\* the count is still 0 and the SDK is still marked uninitialized.
C23_FailedInitializeLeavesGuardUnacquired ==
    [][\A s \in Sessions :
        (obj[s] = "none" /\ op'.name = "__init__" /\ op'.sess = s /\ ~_SDK_INITIALIZED) =>
            /\ calls' # <<>>
            /\ calls'[1][1] = "MV_CC_Initialize"
            /\ (calls'[1][2] # 0 /\ _SDK_INIT_COUNT = 0) =>
                  /\ result' = "SdkInitFailed"
                  /\ obj'[s] = "init_failed"
                  /\ _SDK_INIT_COUNT' = 0
                  /\ ~_SDK_INITIALIZED'
    ]_vars

\* the initializer failed for the first construction with the count at 0, and
\* the second construction has called it again
C23_Witness ==
    /\ obj[1] = "init_failed"
    /\ op = [name |-> "__init__", sess |-> 2]
    /\ calls[1][1] = "MV_CC_Initialize"
    /\ nInitialize = 2
    /\ _SDK_INIT_COUNT \in 0..1

\* ---- C24 ----

\* the operations a caller may try on a session after close()
SessionCalls == {"start", "stop", "get_image", "trigger_and_get_image", "set_params"}

\* C24: once close() has cleared a session's handle, the session never has a
\* handle and is never streaming again, and start, stop, get_image,
\* trigger_and_get_image and set_params on it issue no native call; a handle
\* is created only by the construction, once.
C24_ClosedIsTerminal ==
    /\ [](Count(calls, "MV_CC_CreateHandle") <= 1
          /\ (op.name # "__init__" => "MV_CC_CreateHandle" \notin Names(calls)))
    /\ [][\A s \in Sessions : (_cam[s] = "None") =>
            /\ _cam'[s] # "MvCamera"
            /\ ~_is_running'[s]
            /\ State(s)' = "Closed"
            /\ (op'.sess = s /\ op'.name \in SessionCalls) => calls' = <<>>
       ]_vars

\* a start() on a closed session has just raised
C24_Witness ==
    /\ op.name = "start"
    /\ State(op.sess) = "Closed"
    /\ result = "AttributeError"
    /\ closeCalls[op.sess] > 0

\* ---- C25 ----

\* the operation performed last was a close() of a streaming session
ClosedWhileStreaming == LastIsClose /\ calls # <<>> /\ calls[1][1] = "MV_CC_StopGrabbing"

\* the native calls of the last close() come in the order stop-grabbing,
\* close-device, destroy-handle and then, if at all, the finalizer; a close()
\* that stop-grabbing made fail issues nothing after it
TeardownInOrder ==
    IF result = "ok"
    THEN /\ Len(calls) \in 3..4
         /\ calls[2][1] = "MV_CC_CloseDevice"
         /\ calls[3][1] = "MV_CC_DestroyHandle"
         /\ Len(calls) = 4 => calls[4][1] = "MV_CC_Finalize"
    ELSE Len(calls) = 1

\* C25 as stated: close() on a streaming session issues its native calls in
\* the order stop-grabbing, close-device, destroy-handle, finalizer, and the
\* finalizer is never called with the session's device still open.
C25_FinalizerNeverWhileOpen ==
    ClosedWhileStreaming =>
        /\ TeardownInOrder
        /\ "MV_CC_Finalize" \in Names(calls) => dev[op.sess] # "open"

\* C25, amended: close() on a streaming session issues its native calls in
\* the order stop-grabbing, close-device, destroy-handle, finalizer; the
\* finalizer is called with the session's device closed when close-device or
\* destroy-handle succeeded.
C25_TeardownPrecedesRelease ==
    ClosedWhileStreaming =>
        /\ TeardownInOrder
        /\ ("MV_CC_Finalize" \in Names(calls) /\ (calls[2][2] = 0 \/ calls[3][2] = 0)) =>
              dev[op.sess] # "open"

\* a streaming session has just been closed, all four native calls issued
C25_Witness ==
    /\ ClosedWhileStreaming
    /\ result = "ok"
    /\ Len(calls) = 4
    /\ AllZero(calls)
    /\ State(op.sess) = "Closed"

\* ---- C26 ----

\* C26: trigger_and_get_image on an open session in trigger mode that is not
\* streaming raises NotStreaming and issues no native call, the
\* TriggerSoftware command included.
C26_NoTriggerUnlessStreaming ==
    (op.name = "trigger_and_get_image"
        /\ Connected(op.sess)
        /\ _config[op.sess].trigger_mode = "trigger"
        /\ ~_is_running[op.sess]) =>
        /\ result = "NotStreaming"
        /\ "MV_CC_SetCommandValue:TriggerSoftware" \notin Names(calls)

\* ---- C27 ----

\* HikCameraConfig.__post_init__: the constraints a config is validated
\* against at construction
Valid(c) ==
    /\ c.trigger_mode \in TriggerModes
    /\ c.camera_index >= 0
    /\ c.width > 0
    /\ c.height > 0
    /\ c.exposure >= 0
    /\ c.gain >= 0
    /\ c.fps > 0
    /\ c.timeout > 0

\* C27: the config of every session a caller holds satisfies the validation
\* constraints of its construction, whatever set_params calls were made.
C27_ConfigStaysValid == \A s \in Sessions : obj[s] = "live" => Valid(_config[s])

\* ---- C28 ----

\* C28: the reference count is never negative and is the number of sessions
\* that are connected and not closed, and the SDK is marked initialized
\* exactly when the count is positive.
C28_GuardAccounting ==
    /\ _SDK_INIT_COUNT >= 0
    /\ _SDK_INIT_COUNT = Cardinality({s \in Sessions : Connected(s)})
    /\ _SDK_INITIALIZED = (_SDK_INIT_COUNT > 0)

====
